---- MODULE Spec2Model ----
(***************************************************************************)
(* Model of the M4A writer of loukai (src/src/utils/m4aWriter.js), of the   *)
(* editor's IPC handlers that call it (src/src/main/handlers/              *)
(* editorHandlers.js) and of the editor service between them               *)
(* (src/docs/kai-player-creator.md).                                       *)
(*                                                                         *)
(* A file and every Buffer is a sequence of bytes (0..255).  Positions are *)
(* 0-based as in the source; the byte at position p of buffer b is b[p+1]. *)
(* Box sizes, type tags and chunk-offset tables have their on-disk layout: *)
(* a 4-byte big-endian size, a 4-byte tag, then the payload.               *)
(***************************************************************************)
EXTENDS Integers, Sequences, FiniteSets, TLC

VARIABLES
    disk,           \* bytes stored at the target path
    pc,             \* position of M4AWriter.save: "idle", "open", "writing", "validate"
    song,           \* songData of the save in progress / last started
    kaidJson,       \* JSON.stringify(prepareKaidData(songData)) of that save
    fileBuffer,     \* what injectKaidAtom read from the path (line 62)
    newFileBuffer,  \* what injectKaidAtom built (line 174)
    result,         \* what the last finished save returned: "none", "success", "failure"
    prior,          \* <<json>> when the file read was left by a successful save of json, else <<>>
    saves,          \* number of saves started
    verification,   \* what validate returned in that save: "none", "passed", "failed"
    error,          \* the error message of the last finished save, <<>> without one
    files,          \* the files of the editor's calls: path -> bytes
    req,            \* the editor's IPC calls in flight: slot -> call record
    calls,          \* number of IPC calls received
    touched,        \* per path, the number of saves of the M4A writer started on it
    pBuffer,        \* parseMP4Atoms called on its own: the buffer argument
    pOffset,        \* its offset argument
    pMaxLength,     \* its maxLength argument: <<>> for null, <<n>> for n
    parsed,         \* the atoms it returned
    ppc,            \* "call" before the call, "returned" after it
    kJson,          \* createKaidAtom called on its own: the string kaidJson, as code points
    kAtom,          \* the buffer it returned
    kpc,            \* "call" before the call, "created" after it
    lMode,          \* the scan run step by step: "parse", "search", or "done" at its end
    lBuffer,        \* the buffer it scans
    lStack,         \* its calls in progress, innermost last: [start, pos, end] each
    youtubeBrowserWindow, \* youtubeSearchHandlers.js line 4: 0 for null, else a window
    ytWindows,      \* each BrowserWindow: "none" (not created), "open", "closing", "closed"
    focused,        \* the YouTube window that has the focus, 0 when none has
    escape,         \* whether the global shortcut 'Escape' is registered
    activeTab,      \* TabNavigation's React state
    ariaSelected,   \* per tab button, the aria-selected attribute in the document
    paneHidden      \* per tab pane, whether its class list holds 'hidden'

saveVars == <<disk, pc, song, kaidJson, fileBuffer, newFileBuffer, result, prior, saves,
              verification, error>>
ipcVars == <<files, req, calls, touched>>
parseVars == <<pBuffer, pOffset, pMaxLength, parsed, ppc>>
atomVars == <<kJson, kAtom, kpc>>
loopVars == <<lMode, lBuffer, lStack>>
ytVars == <<youtubeBrowserWindow, ytWindows, focused, escape>>
tabVars == <<activeTab, ariaSelected, paneHidden>>
uiVars == <<ytVars, tabVars>>
restVars == <<atomVars, loopVars, uiVars>>
vars == <<saveVars, ipcVars, parseVars, restVars>>

----------------------------------------------------------------------------
(* Bounds of the model. *)

\* how many saves one behaviour starts
MaxSaves == 2

\* bytes in one media chunk of the input files
ChunkLen == 2

\* how many IPC calls of the editor one behaviour receives
MaxCalls == 2

\* how many pieces (boxes, headers, stray bytes) a buffer given to
\* parseMP4Atoms on its own is made of
MaxPieces == 3

\* how many characters a string given to createKaidAtom on its own has
MaxJsonLen == 3

\* how many pieces a buffer scanned step by step is made of
MaxLoopPieces == 2

\* how many YouTube windows one behaviour creates
MaxWindows == 4

----------------------------------------------------------------------------
(* Bytes and big-endian fields.                                             *)
(*                                                                         *)
(* Where the source computes a local once and reads it many times (const   *)
(* atoms = ..., const newMoov = ...), the model binds the value with       *)
(* CHOOSE out \in {F(x) : x \in {e}} : TRUE, which is F(e) with e evaluated    *)
(* once.                                                                   *)

Min(a, b) == IF a < b THEN a ELSE b
Max(a, b) == IF a > b THEN a ELSE b

\* Buffer.slice(start, end): clamps to the buffer, empty when start >= end
slice(buffer, start, end) ==
    LET s == Min(Max(start, 0), Len(buffer))
        e == Min(Max(end, 0), Len(buffer))
    IN  IF s >= e THEN <<>> ELSE SubSeq(buffer, s + 1, e)

\* header.writeUInt32BE(size, 0): the four big-endian bytes of 0 <= n < 2^31
UInt32BE(n) ==
    << (n \div 16777216) % 256, (n \div 65536) % 256, (n \div 256) % 256, n % 256 >>

\* buffer.readUInt32BE(pos) for pos + 4 <= Len(buffer).  The model's integers
\* are 32-bit signed, so a field of 2^31 or more reads as 2^31 - 1: every
\* use of the value compares it with a length below 2^24 first.
readUInt32BE(buffer, pos) ==
    IF buffer[pos + 1] >= 128
    THEN 2147483647
    ELSE buffer[pos + 1] * 16777216 + buffer[pos + 2] * 65536
         + buffer[pos + 3] * 256 + buffer[pos + 4]

\* buffer.toString('utf8', pos + 4, pos + 8): the four tag bytes
typeAt(buffer, pos) == slice(buffer, pos + 4, pos + 8)

\* four-character tags, as bytes
T_moov == <<109, 111, 111, 118>>
T_udta == <<117, 100, 116, 97>>
T_meta == <<109, 101, 116, 97>>
T_ilst == <<105, 108, 115, 116>>
T_free == <<45, 45, 45, 45>>          \* '----'
T_mean == <<109, 101, 97, 110>>
T_name == <<110, 97, 109, 101>>
T_data == <<100, 97, 116, 97>>
T_hdlr == <<104, 100, 108, 114>>
T_stco == <<115, 116, 99, 111>>
T_co64 == <<99, 111, 54, 52>>
T_trak == <<116, 114, 97, 107>>
T_mdia == <<109, 100, 105, 97>>
T_minf == <<109, 105, 110, 102>>
T_stbl == <<115, 116, 98, 108>>
T_mdat == <<109, 100, 97, 116>>
T_ftyp == <<102, 116, 121, 112>>
T_nam  == <<169, 110, 97, 109>>       \* '(c)nam'
T_stem == <<115, 116, 101, 109>>
S_comstems == <<99, 111, 109, 46, 115, 116, 101, 109, 115>>   \* 'com.stems'
S_kaid == <<107, 97, 105, 100>>
S_vpch == <<118, 112, 99, 104>>

----------------------------------------------------------------------------
(* M4AWriter.parseMP4Atoms, createAtom, createKaidAtom,                     *)
(* createMetaIlstKaidStructure.                                             *)

\* the loop of parseMP4Atoms from position pos
RECURSIVE parseLoop(_, _, _)
parseLoop(buffer, pos, endOffset) ==
    IF ~(pos < endOffset - 8)
    THEN <<>>
    ELSE LET size == readUInt32BE(buffer, pos)
         IN  IF size = 0 \/ size > Len(buffer) - pos
             THEN <<>>
             ELSE << [type |-> typeAt(buffer, pos), offset |-> pos,
                      size |-> size, dataOffset |-> pos + 8] >>
                  \o parseLoop(buffer, pos + size, endOffset)

\* parseMP4Atoms(buffer, offset = 0, maxLength = null): maxLength is <<>> for
\* null and <<n>> for the number n; 0 is falsy like null
parseMP4Atoms(buffer, offset, maxLength) ==
    LET endOffset == IF maxLength # <<>> /\ maxLength[1] # 0
                     THEN offset + maxLength[1]
                     ELSE Len(buffer)
    IN  parseLoop(buffer, offset, endOffset)

\* one iteration of the loop of parseMP4Atoms without the test for size 0
parseIterNoBreak(buffer, pos, endOffset) ==
    IF ~(pos < endOffset - 8)
    THEN [done |-> TRUE, pos |-> pos]
    ELSE LET size == readUInt32BE(buffer, pos)
         IN  IF size > Len(buffer) - pos
             THEN [done |-> TRUE, pos |-> pos]
             ELSE [done |-> FALSE, pos |-> pos + size]

\* one iteration of the loop of parseMP4Atoms (lines 196-213) at position
\* pos: whether the loop ends there, and the position after the iteration
parseIter(buffer, pos, endOffset) ==
    IF ~(pos < endOffset - 8)
    THEN [done |-> TRUE, pos |-> pos]
    ELSE LET size == readUInt32BE(buffer, pos)
         IN  IF size = 0 \/ size > Len(buffer) - pos
             THEN [done |-> TRUE, pos |-> pos]
             ELSE [done |-> FALSE, pos |-> pos + size]

\* atoms.find returning the first atom, whatever its type
findFirst(atoms, type) == IF atoms = <<>> THEN <<>> ELSE <<atoms[1]>>

\* atoms.find((a) => a.type === type): <<>> for undefined, else <<atom>>
find(atoms, type) ==
    LET hits == {i \in 1..Len(atoms) : atoms[i].type = type}
    IN  IF hits = {} THEN <<>>
        ELSE << atoms[CHOOSE i \in hits : \A j \in hits : i <= j] >>

createAtom(type, data) == UInt32BE(8 + Len(data)) \o type \o data

\* the UTF-8 bytes of one code point
utf8Char(cp) ==
    IF cp < 128 THEN <<cp>>
    ELSE IF cp < 2048 THEN <<192 + (cp \div 64), 128 + (cp % 64)>>
    ELSE IF cp < 65536
    THEN <<224 + (cp \div 4096), 128 + ((cp \div 64) % 64), 128 + (cp % 64)>>
    ELSE <<240 + (cp \div 262144), 128 + ((cp \div 4096) % 64),
           128 + ((cp \div 64) % 64), 128 + (cp % 64)>>

\* Buffer.from(str, 'utf8') (line 238) for a well-formed string, given as its
\* code points (JSON.stringify leaves no lone surrogate in its output)
RECURSIVE BufferFrom(_)
BufferFrom(str) ==
    IF str = <<>> THEN <<>> ELSE utf8Char(Head(str)) \o BufferFrom(Tail(str))

\* createKaidAtom with the 'name' atom before the 'mean' atom
createKaidAtomNameFirst(json) ==
    LET meanAtom == createAtom(T_mean, UInt32BE(0) \o S_comstems)
        nameAtom == createAtom(T_name, UInt32BE(0) \o S_kaid)
        dataAtom == createAtom(T_data, UInt32BE(1) \o UInt32BE(0) \o json)
    IN  createAtom(T_free, nameAtom \o meanAtom \o dataAtom)

\* createKaidAtom for jsonData, the bytes of kaidJson
createKaidAtom(json) ==
    LET meanAtom == createAtom(T_mean, UInt32BE(0) \o S_comstems)
        nameAtom == createAtom(T_name, UInt32BE(0) \o S_kaid)
        dataAtom == createAtom(T_data, UInt32BE(1) \o UInt32BE(0) \o json)
    IN  createAtom(T_free, meanAtom \o nameAtom \o dataAtom)

hdlrData ==
    << 0, 0, 0, 0,  0, 0, 0, 0,  109, 100, 105, 114,  97, 112, 112, 108,
       0, 0, 0, 0,  0, 0, 0, 0,  0 >>

\* returns metaVersion ++ hdlr ++ ilst: the payload of a meta box, without
\* a 'meta' header (line 305)
createMetaIlstKaidStructure(kaidAtomData) ==
    LET ilst == createAtom(T_ilst, kaidAtomData)
        metaVersion == UInt32BE(0)
        hdlr == createAtom(T_hdlr, hdlrData)
    IN  metaVersion \o hdlr \o ilst

----------------------------------------------------------------------------
(* M4AWriter.updateMetaWithKaid. *)

\* the new payload of the meta box (version/flags included)
updateMetaWithKaid(buffer, metaAtom, kaidAtomData) ==
    LET withIlst(ilstFound) ==
            IF ilstFound = <<>>
            THEN \* add ilst to end of meta (lines 320-329)
                 slice(buffer, metaAtom.dataOffset, metaAtom.dataOffset + metaAtom.size - 8)
                 \o createAtom(T_ilst, kaidAtomData)
            ELSE LET ilstAtom == ilstFound[1]
                     beforeIlst == slice(buffer, metaAtom.dataOffset, ilstAtom.offset)
                     afterIlst == slice(buffer, ilstAtom.offset + ilstAtom.size,
                                        metaAtom.offset + metaAtom.size)
                     newIlstData(existingKaid) ==
                         IF existingKaid # <<>>
                         THEN slice(buffer, ilstAtom.dataOffset, existingKaid[1].offset)
                              \o kaidAtomData
                              \o slice(buffer, existingKaid[1].offset + existingKaid[1].size,
                                       ilstAtom.offset + ilstAtom.size)
                         ELSE slice(buffer, ilstAtom.dataOffset,
                                    ilstAtom.dataOffset + ilstAtom.size - 8)
                              \o kaidAtomData
                     ilstChildren == parseMP4Atoms(buffer, ilstAtom.dataOffset,
                                                   <<ilstAtom.size - 8>>)
                 IN  beforeIlst
                     \* line 333: the first child of type '----', whatever its mean/name
                     \o createAtom(T_ilst, CHOOSE out \in { newIlstData(x) :
                                       x \in {find(ilstChildren, T_free)} } : TRUE)
                     \o afterIlst
        metaChildren == parseMP4Atoms(buffer, metaAtom.dataOffset + 4,
                                      <<metaAtom.size - 12>>)
    IN  CHOOSE out \in { withIlst(x) : x \in {find(metaChildren, T_ilst)} } : TRUE

----------------------------------------------------------------------------
(* M4AWriter.updateChunkOffsets.                                           *)
(*                                                                         *)
(* A chunk offset is kept as [hi, lo]: lo is the value of its low three    *)
(* bytes and hi the sequence of its higher bytes (one for stco, five for   *)
(* co64), so that offsets up to 2^32 - 1 and 2^64 - 1 are exact.           *)

\* buffer.readUInt32BE(offsetPos) (width 4) / readBigUInt64BE (width 8)
readOffset(buffer, offsetPos, width) ==
    [hi |-> slice(buffer, offsetPos, offsetPos + width - 3),
     lo |-> buffer[offsetPos + width - 2] * 65536
            + buffer[offsetPos + width - 1] * 256 + buffer[offsetPos + width]]

\* chunkOffset >= shiftThreshold, for a threshold below 2^24
offsetGE(o, shiftThreshold) ==
    (\E i \in 1..Len(o.hi) : o.hi[i] # 0) \/ o.lo >= shiftThreshold

\* bytes hi plus a carry c: [v: the bytes, c: the carry out of the top byte]
RECURSIVE addCarry(_, _)
addCarry(hi, c) ==
    IF c = 0 \/ hi = <<>>
    THEN [v |-> hi, c |-> c]
    ELSE LET last == hi[Len(hi)] + c
             r == addCarry(SubSeq(hi, 1, Len(hi) - 1), last \div 256)
         IN  [v |-> Append(r.v, last % 256), c |-> r.c]

\* chunkOffset + sizeDelta; carry # 0 when the sum does not fit the width
addDelta(o, sizeDelta) ==
    LET sum == o.lo + sizeDelta
        r == addCarry(o.hi, sum \div 16777216)
    IN  [hi |-> r.v, lo |-> sum % 16777216, carry |-> r.c]

offsetBytes(o) ==
    o.hi \o << (o.lo \div 65536) % 256, (o.lo \div 256) % 256, o.lo % 256 >>

\* buffer with the bytes at pos replaced (buffer.writeUInt32BE / writeBigUInt64BE)
writeAt(buffer, pos, bytes) ==
    [i \in 1..Len(buffer) |->
        IF i > pos /\ i <= pos + Len(bytes) THEN bytes[i - pos] ELSE buffer[i]]

\* the entry loop of a stco (width 4) or co64 (width 8) table at pos, from
\* entry i: [buffer, threw].  A read past the end of the buffer and a write of
\* a value outside the field's range throw a RangeError, which leaves the
\* entries written so far in place (lines 403-416, 424-438).
RECURSIVE updateEntries(_, _, _, _, _, _, _)
entryStep(buffer, pos, i, entryCount, width, sizeDelta, shiftThreshold) ==
    IF ~(i < entryCount)
    THEN [buffer |-> buffer, threw |-> FALSE]
    ELSE LET offsetPos == pos + 16 + i * width
         IN  IF offsetPos + width > Len(buffer)
             THEN [buffer |-> buffer, threw |-> TRUE]
             ELSE LET chunkOffset == readOffset(buffer, offsetPos, width)
                      newOffset == addDelta(chunkOffset, sizeDelta)
                  IN  IF ~offsetGE(chunkOffset, shiftThreshold)
                      THEN updateEntries(buffer, pos, i + 1, entryCount, width,
                                         sizeDelta, shiftThreshold)
                      ELSE IF newOffset.carry # 0
                      THEN [buffer |-> buffer, threw |-> TRUE]
                      ELSE updateEntries(writeAt(buffer, offsetPos, offsetBytes(newOffset)),
                                         pos, i + 1, entryCount, width,
                                         sizeDelta, shiftThreshold)

\* one iteration on the value of its arguments (each evaluated once)
updateEntries(buffer, pos, i, entryCount, width, sizeDelta, shiftThreshold) ==
    CHOOSE out \in { entryStep(a[1], a[2], a[3], a[4], width, a[5], a[6]) :
                     a \in {<<buffer, pos, i, entryCount, sizeDelta, shiftThreshold>>} } : TRUE

\* a stco or co64 table at pos: entryCount read at pos + 12, then the loop
updateTable(buffer, pos, width, sizeDelta, shiftThreshold) ==
    IF pos + 16 > Len(buffer)
    THEN [buffer |-> buffer, threw |-> TRUE]
    ELSE updateEntries(buffer, pos, 0, readUInt32BE(buffer, pos + 12), width,
                       sizeDelta, shiftThreshold)

containerTypes == {T_trak, T_mdia, T_minf, T_stbl, T_moov}

\* searchAtoms(buffer, start, end), from position pos: the buffer after the scan
RECURSIVE searchAtoms(_, _, _, _, _)
searchStep(buffer, pos, end, sizeDelta, shiftThreshold) ==
    IF ~(pos < end - 8 /\ pos < Len(buffer) - 8)
    THEN buffer
    ELSE LET size == readUInt32BE(buffer, pos)
             atype == typeAt(buffer, pos)
         IN  IF size < 8 \/ size > end - pos
             THEN searchAtoms(buffer, pos + 8, end, sizeDelta, shiftThreshold)
             ELSE IF atype = T_stco \/ atype = T_co64
             THEN LET r == updateTable(buffer, pos, IF atype = T_stco THEN 4 ELSE 8,
                                       sizeDelta, shiftThreshold)
                  IN  \* catch (lines 446-449): pos += 8 instead of pos += size
                      searchAtoms(r.buffer, IF r.threw THEN pos + 8 ELSE pos + size,
                                  end, sizeDelta, shiftThreshold)
             ELSE IF atype \in containerTypes
             THEN searchAtoms(searchAtoms(buffer, pos + 8, pos + size,
                                          sizeDelta, shiftThreshold),
                              pos + size, end, sizeDelta, shiftThreshold)
             ELSE searchAtoms(buffer, pos + size, end, sizeDelta, shiftThreshold)

\* one iteration on the value of its arguments (each evaluated once)
searchAtoms(buffer, pos, end, sizeDelta, shiftThreshold) ==
    CHOOSE out \in { searchStep(a[1], a[2], a[3], a[4], a[5]) :
                     a \in {<<buffer, pos, end, sizeDelta, shiftThreshold>>} } : TRUE

\* one iteration of the loop of searchAtoms(buffer, start, end) (lines 387-450)
\* at position pos: "return" when the loop ends, "call" when the iteration
\* calls searchAtoms for the children of a container (start and end of the
\* call given), else "advance"; the position and the buffer after it
searchIter(buffer, pos, end, sizeDelta, shiftThreshold) ==
    IF ~(pos < end - 8 /\ pos < Len(buffer) - 8)
    THEN [kind |-> "return", pos |-> pos, buffer |-> buffer, start |-> 0, end |-> 0]
    ELSE LET size == readUInt32BE(buffer, pos)
             atype == typeAt(buffer, pos)
         IN  IF size < 8 \/ size > end - pos
             THEN [kind |-> "advance", pos |-> pos + 8, buffer |-> buffer,
                   start |-> 0, end |-> 0]
             ELSE IF atype = T_stco \/ atype = T_co64
             THEN LET r == updateTable(buffer, pos, IF atype = T_stco THEN 4 ELSE 8,
                                       sizeDelta, shiftThreshold)
                  IN  [kind |-> "advance",
                       pos |-> IF r.threw THEN pos + 8 ELSE pos + size,
                       buffer |-> r.buffer, start |-> 0, end |-> 0]
             ELSE IF atype \in containerTypes
             THEN [kind |-> "call", pos |-> pos + size, buffer |-> buffer,
                   start |-> pos + 8, end |-> pos + size]
             ELSE [kind |-> "advance", pos |-> pos + size, buffer |-> buffer,
                   start |-> 0, end |-> 0]

\* whether the scan from position pos reaches its catch (lines 446-449), which
\* logs the error thrown by an entry loop and goes on 8 bytes further
RECURSIVE searchWarned(_, _, _, _, _)
searchWarned(buffer, pos, end, sizeDelta, shiftThreshold) ==
    IF ~(pos < end - 8 /\ pos < Len(buffer) - 8)
    THEN FALSE
    ELSE LET size == readUInt32BE(buffer, pos)
             atype == typeAt(buffer, pos)
         IN  IF size < 8 \/ size > end - pos
             THEN searchWarned(buffer, pos + 8, end, sizeDelta, shiftThreshold)
             ELSE IF atype = T_stco \/ atype = T_co64
             THEN \E r \in {updateTable(buffer, pos, IF atype = T_stco THEN 4 ELSE 8,
                                         sizeDelta, shiftThreshold)} :
                      \/ r.threw
                      \/ searchWarned(r.buffer, pos + size, end, sizeDelta, shiftThreshold)
             ELSE IF atype \in containerTypes
             THEN \/ searchWarned(buffer, pos + 8, pos + size, sizeDelta, shiftThreshold)
                  \/ searchWarned(searchAtoms(buffer, pos + 8, pos + size,
                                              sizeDelta, shiftThreshold),
                                  pos + size, end, sizeDelta, shiftThreshold)
             ELSE searchWarned(buffer, pos + size, end, sizeDelta, shiftThreshold)

\* updateChunkOffsets shifting every entry, whatever the threshold
updateChunkOffsetsAll(moovBuffer, sizeDelta, shiftThreshold) ==
    searchAtoms(moovBuffer, 0, Len(moovBuffer), sizeDelta, 0)

\* the moov buffer after updateChunkOffsets(moovBuffer, sizeDelta, shiftThreshold)
updateChunkOffsets(moovBuffer, sizeDelta, shiftThreshold) ==
    searchAtoms(moovBuffer, 0, Len(moovBuffer), sizeDelta, shiftThreshold)

----------------------------------------------------------------------------
(* M4AWriter.injectKaidAtom, up to the buffer it hands to writeFile. *)

\* newUdtaData for the udta box found (lines 102-135)
newUdtaData(buffer, udtaAtom, kaidAtomData) ==
    LET withMeta(metaFound) ==
            IF metaFound = <<>>
            THEN slice(buffer, udtaAtom.dataOffset, udtaAtom.offset + udtaAtom.size)
                 \o createMetaIlstKaidStructure(kaidAtomData)
            ELSE LET metaAtom == metaFound[1]
                     newMeta == createAtom(T_meta,
                                    updateMetaWithKaid(buffer, metaAtom, kaidAtomData))
                 IN  slice(buffer, udtaAtom.dataOffset, metaAtom.offset)
                     \o newMeta
                     \o slice(buffer, metaAtom.offset + metaAtom.size,
                              udtaAtom.offset + udtaAtom.size)
        udtaChildren == parseMP4Atoms(buffer, udtaAtom.dataOffset, <<udtaAtom.size - 8>>)
    IN  CHOOSE out \in { withMeta(x) : x \in {find(udtaChildren, T_meta)} } : TRUE

\* newMoovData (lines 83-147) for the moov box found
newMoovData(buffer, moovAtom, kaidAtomData) ==
    LET withUdta(udtaFound) ==
            IF udtaFound = <<>>
            THEN LET udtaData == createAtom(T_udta,
                                     createMetaIlstKaidStructure(kaidAtomData))
                     moovDataEnd == moovAtom.dataOffset + moovAtom.size - 8
                 IN  slice(buffer, moovAtom.dataOffset, moovDataEnd) \o udtaData
            ELSE LET udtaAtom == udtaFound[1]
                     beforeUdta == slice(buffer, moovAtom.dataOffset, udtaAtom.offset)
                     afterUdta == slice(buffer, udtaAtom.offset + udtaAtom.size,
                                        moovAtom.offset + moovAtom.size)
                 IN  beforeUdta
                     \o createAtom(T_udta, newUdtaData(buffer, udtaAtom, kaidAtomData))
                     \o afterUdta
        moovChildren == parseMP4Atoms(buffer, moovAtom.dataOffset, <<moovAtom.size - 8>>)
    IN  CHOOSE out \in { withUdta(x) : x \in {find(moovChildren, T_udta)} } : TRUE

\* rebuildFile with afterMoov starting 8 bytes late
rebuildFileShort(buffer, moovAtom, newMoov) ==
    slice(buffer, 0, moovAtom.offset) \o newMoov
    \o slice(buffer, moovAtom.offset + moovAtom.size + 8, Len(buffer))

\* the whole file around the new moov (lines 171-174)
rebuildFile(buffer, moovAtom, newMoov) ==
    LET beforeMoov == slice(buffer, 0, moovAtom.offset)
        afterMoov == slice(buffer, moovAtom.offset + moovAtom.size, Len(buffer))
    IN  beforeMoov \o newMoov \o afterMoov

\* lines 149-174 for the moov box found and the kaid atom created: the new
\* moov with its chunk offsets updated, and the new file
injectInto(buffer, moovAtom, kaidAtomData) ==
    LET withMoov(built) ==
            LET oldMoovSize == moovAtom.size
                sizeDelta == Len(built) - oldMoovSize
                originalMoovEnd == moovAtom.offset + oldMoovSize
                withUpdated(newMoov) ==
                    [threw |-> FALSE,
                     newFileBuffer |-> rebuildFile(buffer, moovAtom, newMoov),
                     sizeDelta |-> sizeDelta]
            IN  CHOOSE out \in { withUpdated(x) :
                    x \in {IF sizeDelta # 0
                           THEN updateChunkOffsets(built, sizeDelta, originalMoovEnd)
                           ELSE built} } : TRUE
    IN  CHOOSE out \in { withMoov(x) :
            x \in {createAtom(T_moov, newMoovData(buffer, moovAtom, kaidAtomData))} } : TRUE

\* what injectKaidAtom computes from the file it read: threw is TRUE when no
\* moov atom is found (line 72); otherwise newFileBuffer is what line 177 writes
injectKaidAtom(buffer, json) ==
    LET withAtom(moovFound) ==
            IF moovFound = <<>>
            THEN [threw |-> TRUE, newFileBuffer |-> <<>>, sizeDelta |-> 0]
            ELSE LET inject(kaidAtomData) == injectInto(buffer, moovFound[1], kaidAtomData)
                 IN  CHOOSE out \in { inject(x) : x \in {createKaidAtom(json)} } : TRUE
    IN  CHOOSE out \in { withAtom(x) :
            x \in {find(parseMP4Atoms(buffer, 0, <<>>), T_moov)} } : TRUE

\* whether updateChunkOffsets, called by injectKaidAtom for this file and
\* this JSON (lines 149-165), catches an error of its entry loops
injectWarned(buffer, json) ==
    \E moovFound \in {find(parseMP4Atoms(buffer, 0, <<>>), T_moov)} :
        /\ moovFound # <<>>
        /\ \E built \in {createAtom(T_moov,
                              newMoovData(buffer, moovFound[1], createKaidAtom(json)))} :
              /\ Len(built) # moovFound[1].size
              /\ searchWarned(built, 0, Len(built), Len(built) - moovFound[1].size,
                              moovFound[1].offset + moovFound[1].size)

----------------------------------------------------------------------------
(* M4AWriter.prepareKaidData and JSON.stringify.                           *)
(*                                                                         *)
(* A lyric line of songData is [start, startTimeSec, end, endTimeSec,      *)
(* text, disabled, singer, backup, words]; a member the caller left out    *)
(* holds the falsy value of its type (0, <<>>, FALSE), which `||` and `&&` *)
(* treat as undefined.  The editor writes start and startTimeSec together, *)
(* and end and endTimeSec together (LyricLine.jsx lines 49, 54), so a line *)
(* holds either one member of a pair or both with the same value.          *)

\* a || b || 0 on numbers
orElse(a, b) == IF a # 0 THEN a ELSE IF b # 0 THEN b ELSE 0

\* prepareLine with the editor's default for a missing end, start + 3
\* (LyricLine.jsx line 40)
prepareLineDefaultEnd(line) ==
    [start |-> orElse(line.start, line.startTimeSec),
     end |-> IF orElse(line.end, line.endTimeSec) # 0
             THEN orElse(line.end, line.endTimeSec)
             ELSE orElse(line.start, line.startTimeSec) + 3,
     text |-> line.text,
     disabled |-> line.disabled]

\* the lines member of kaidData (lines 484-489)
prepareLine(line) ==
    [start |-> orElse(line.start, line.startTimeSec),
     end |-> orElse(line.end, line.endTimeSec),
     text |-> line.text,
     disabled |-> line.disabled]

prepareKaidData(songData) ==
    [lines |-> [i \in 1..Len(songData.lyrics) |-> prepareLine(songData.lyrics[i])]]

\* JSON text of one line: the digits of start and end, the quoted text and,
\* only for a disabled line, the letter d; key names are left out
stringifyLine(l) ==
    <<48 + l.start, 48 + l.end, 34>> \o l.text \o <<34>>
    \o (IF l.disabled THEN <<100>> ELSE <<>>)

RECURSIVE stringifyLines(_)
stringifyLines(lines) ==
    IF lines = <<>> THEN <<>>
    ELSE stringifyLine(lines[1])
         \o (IF Len(lines) > 1 THEN <<44>> ELSE <<>>)
         \o stringifyLines(Tail(lines))

\* JSON.stringify(kaidData), as bytes: '[' lines ']'
stringify(kaidData) == <<91>> \o stringifyLines(kaidData.lines) \o <<93>>

----------------------------------------------------------------------------
(* The files a save can find at the path. *)

\* a box: 4-byte big-endian size, 4-byte tag, payload
box(type, payload) == UInt32BE(8 + Len(payload)) \o type \o payload

\* singers, as the bytes of their ids
S_A == <<65>>
S_B == <<66>>

lineA == [start |-> 1, startTimeSec |-> 0, end |-> 2, endTimeSec |-> 0,
          text |-> <<97>>, disabled |-> FALSE,
          singer |-> S_A, backup |-> FALSE, words |-> << <<0, 1>> >>]
\* a legacy line: startTimeSec / endTimeSec and the backup flag only
lineB == [start |-> 0, startTimeSec |-> 3, end |-> 0, endTimeSec |-> 4,
          text |-> <<98>>, disabled |-> TRUE,
          singer |-> <<>>, backup |-> TRUE, words |-> <<>>]
\* a line that starts at time 0
lineZ == [start |-> 0, startTimeSec |-> 0, end |-> 2, endTimeSec |-> 2,
          text |-> <<122>>, disabled |-> FALSE,
          singer |-> S_A, backup |-> FALSE, words |-> << <<0, 2>> >>]
\* a line of singer A from 1 to 3: it overlaps lineZ
lineC == [start |-> 1, startTimeSec |-> 1, end |-> 3, endTimeSec |-> 3,
          text |-> <<99>>, disabled |-> FALSE,
          singer |-> S_A, backup |-> FALSE, words |-> << <<0, 1>>, <<1, 2>> >>]
\* lineC given to singer B, with other word timings
lineD == [lineC EXCEPT !.singer = S_B, !.words = << <<0, 2>> >>]
\* a line without text that starts and ends at time 0
lineY == [start |-> 0, startTimeSec |-> 0, end |-> 0, endTimeSec |-> 0,
          text |-> <<>>, disabled |-> FALSE,
          singer |-> <<>>, backup |-> FALSE, words |-> <<>>]

\* the songs a caller saves
Songs ==
    { [lyrics |-> <<>>], [lyrics |-> <<lineA>>], [lyrics |-> <<lineA, lineB>>],
      [lyrics |-> <<lineZ, lineC>>], [lyrics |-> <<lineZ, lineD>>],
      [lyrics |-> <<lineY>>] }

\* the kaid JSON already in a file that has one: that of the one-line song
oldJson == stringify(prepareKaidData([lyrics |-> <<lineA>>]))

\* a freeform item with identity (namespace, name)
freeformItem(namespace, name, value) ==
    box(T_free,
        box(T_mean, UInt32BE(0) \o namespace)
        \o box(T_name, UInt32BE(0) \o name)
        \o box(T_data, UInt32BE(1) \o UInt32BE(0) \o value))

\* a member of the kaid JSON that the writer does not interpret, as the bytes
\* 'v1' (for "stems_karaoke_version": "1.0"), and a kaid JSON holding it
unknownMember == <<118, 49>>
oldJsonExtra == unknownMember \o oldJson

namItem == box(T_nam, box(T_data, UInt32BE(1) \o UInt32BE(0) \o <<84>>))
vpchItem == freeformItem(S_comstems, S_vpch, <<7, 7>>)
oldKaidItem == freeformItem(S_comstems, S_kaid, oldJson)
extraKaidItem == freeformItem(S_comstems, S_kaid, oldJsonExtra)

metaOf(children) == box(T_meta, UInt32BE(0) \o box(T_hdlr, hdlrData) \o children)

MetaVariants ==
    {"noUdta", "noMeta", "noIlst", "ilstEmpty", "ilstNam",
     "kaid", "namKaid", "vpchKaid", "kaidVpch"}

\* the udta box of a layout (no bytes at all for "noUdta")
udtaOf(variant) ==
    CASE variant = "noUdta"    -> <<>>
      [] variant = "noMeta"    -> box(T_udta, box(T_stem, <<123, 125>>))
      [] variant = "noIlst"    -> box(T_udta, metaOf(<<>>))
      [] variant = "ilstEmpty" -> box(T_udta, metaOf(box(T_ilst, <<>>)))
      [] variant = "ilstNam"   -> box(T_udta, metaOf(box(T_ilst, namItem)))
      [] variant = "kaid"      -> box(T_udta, metaOf(box(T_ilst, oldKaidItem)))
      [] variant = "namKaid"   ->
            box(T_udta, metaOf(box(T_ilst, namItem \o oldKaidItem)))
      [] variant = "vpchKaid"  ->
            box(T_udta, metaOf(box(T_ilst, vpchItem \o oldKaidItem)))
      [] variant = "kaidVpch"  ->
            box(T_udta, metaOf(box(T_ilst, oldKaidItem \o vpchItem)))
      [] variant = "kaidExtra" -> box(T_udta, metaOf(box(T_ilst, extraKaidItem)))

\* a chunk-offset table: stco (width 4) or co64 (width 8) holding the offsets
RECURSIVE entryBytes(_, _)
entryBytes(offsets, width) ==
    IF offsets = <<>> THEN <<>>
    ELSE [i \in 1..(width - 4) |-> 0] \o offsets[1] \o entryBytes(Tail(offsets), width)

tableOf(offsets, width) ==
    box(IF width = 4 THEN T_stco ELSE T_co64,
               UInt32BE(0) \o UInt32BE(Len(offsets)) \o entryBytes(offsets, width))

trakOf(table) ==
    box(T_trak, box(T_mdia, box(T_minf, box(T_stbl, table))))

ftyp == box(T_ftyp, <<77, 52, 65, 32>>)
\* two chunks of ChunkLen bytes each, every byte different
mdatPayload == [i \in 1..(2 * ChunkLen) |-> 200 + i]
mdat == box(T_mdat, mdatPayload)

\* the largest 32-bit offset, 2^32 - 1, as the four bytes of a stco entry
hugeOffset == <<255, 255, 255, 255>>

\* A layout is [meta, mdatFirst, width, udtaFirst, huge]: which metadata the
\* moov holds, whether mdat precedes moov, the width of the table's entries,
\* whether udta precedes trak, and whether the table also holds an entry of
\* 2^32 - 1 between its two chunk offsets.
moovOf(l, offsets) ==
    LET trak == trakOf(tableOf(offsets, l.width))
        udta == udtaOf(l.meta)
    IN  box(T_moov, IF l.udtaFirst THEN udta \o trak ELSE trak \o udta)

offsetsOf(l, base) ==
    IF l.huge
    THEN <<UInt32BE(base), hugeOffset, UInt32BE(base + ChunkLen)>>
    ELSE <<UInt32BE(base), UInt32BE(base + ChunkLen)>>

fileOf(l) ==
    LET moovLen == Len(moovOf(l, offsetsOf(l, 0)))
        base == IF l.mdatFirst THEN Len(ftyp) + 8 ELSE Len(ftyp) + moovLen + 8
        moov == moovOf(l, offsetsOf(l, base))
    IN  IF l.mdatFirst THEN ftyp \o mdat \o moov ELSE ftyp \o moov \o mdat

Layouts ==
    { [meta |-> m, mdatFirst |-> f, width |-> w, udtaFirst |-> FALSE, huge |-> FALSE] :
        m \in MetaVariants, f \in BOOLEAN, w \in {4, 8} }
    \cup
    { [meta |-> m, mdatFirst |-> FALSE, width |-> 4, udtaFirst |-> TRUE, huge |-> FALSE] :
        m \in {"noMeta", "kaid"} }
    \cup
    { [meta |-> m, mdatFirst |-> FALSE, width |-> 4, udtaFirst |-> FALSE, huge |-> TRUE] :
        m \in {"noIlst", "kaid"} }
    \cup
    { [meta |-> "kaidExtra", mdatFirst |-> FALSE, width |-> 4, udtaFirst |-> FALSE,
       huge |-> FALSE] }

\* files without a top-level moov box: an empty file, ftyp and mdat only,
\* and a file whose moov lies inside another box
NoMoovFiles ==
    { <<>>,
      ftyp \o mdat,
      ftyp \o box(T_udta, box(T_moov, trakOf(tableOf(<<UInt32BE(0)>>, 4)))) \o mdat }

\* the messages of the errors of a save: line 72, and the errors with which
\* fs.promises.writeFile rejects at the open and during the write
M_noMoov == "No moov atom found in M4A file"
M_open == "EACCES: permission denied, open"
M_write == "ENOSPC: no space left on device, write"

\* the message of the error thrown by the catch of injectKaidAtom (line 184)
injectError(message) == <<"Failed to inject kaid atom: ", message>>

----------------------------------------------------------------------------
(* A strict box walk, used to state the properties: a box counts only when *)
(* its header and its declared size fit the enclosing range.               *)

boxFits(buffer, pos, end) ==
    /\ pos + 8 <= end
    /\ readUInt32BE(buffer, pos) >= 8
    /\ readUInt32BE(buffer, pos) <= end - pos

\* the boxes from pos on, up to end or to the first position without a box
RECURSIVE walk(_, _, _)
walk(buffer, pos, end) ==
    IF pos >= end \/ ~boxFits(buffer, pos, end)
    THEN <<>>
    ELSE << [type |-> typeAt(buffer, pos), offset |-> pos,
             size |-> readUInt32BE(buffer, pos)] >>
         \o walk(buffer, pos + readUInt32BE(buffer, pos), end)

\* boxes tile [pos, end) exactly
RECURSIVE tiles(_, _, _)
tiles(buffer, pos, end) ==
    \/ pos = end
    \/ /\ pos < end
       /\ boxFits(buffer, pos, end)
       /\ tiles(buffer, pos + readUInt32BE(buffer, pos), end)

\* the children of a box whose payload starts with `skip` bytes of its own
childrenOf(buffer, b, skip) == walk(buffer, b.offset + 8 + skip, b.offset + b.size)

RECURSIVE selectType(_, _)
selectType(boxes, type) ==
    IF boxes = <<>> THEN <<>>
    ELSE (IF boxes[1].type = type THEN <<boxes[1]>> ELSE <<>>)
         \o selectType(Tail(boxes), type)

\* the boxes reached from the boxes `from` by one step to children of `type`
RECURSIVE descend(_, _, _, _)
descend(buffer, from, type, skip) ==
    IF from = <<>> THEN <<>>
    ELSE selectType(childrenOf(buffer, from[1], skip), type)
         \o descend(buffer, Tail(from), type, skip)

topLevel(buffer) == walk(buffer, 0, Len(buffer))
firstOf(boxes) == IF boxes = <<>> THEN <<>> ELSE <<boxes[1]>>

\* the first moov of the file, as <<box>> or <<>>
theMoov(buffer) == firstOf(selectType(topLevel(buffer), T_moov))

\* all stco and co64 tables under moov/trak/mdia/minf/stbl, in file order
chunkTables(buffer) ==
    LET stbls == descend(buffer, descend(buffer, descend(buffer,
                     descend(buffer, theMoov(buffer), T_trak, 0), T_mdia, 0),
                     T_minf, 0), T_stbl, 0)
        isTable(b) == b.type = T_stco \/ b.type = T_co64
        RECURSIVE pick(_)
        pick(boxes) == IF boxes = <<>> THEN <<>>
                       ELSE (IF isTable(boxes[1]) THEN <<boxes[1]>> ELSE <<>>)
                            \o pick(Tail(boxes))
        RECURSIVE all(_)
        all(bs) == IF bs = <<>> THEN <<>>
                   ELSE pick(childrenOf(buffer, bs[1], 0)) \o all(Tail(bs))
    IN  all(stbls)

widthOf(table) == IF table.type = T_stco THEN 4 ELSE 8
countOf(buffer, table) == readUInt32BE(buffer, table.offset + 12)

\* entry i (from 0) of a table, as [hi, lo]
entryOf(buffer, table, i) ==
    readOffset(buffer, table.offset + 16 + i * widthOf(table), widthOf(table))

\* the pairs <<k, i>>: entry i of table k
entryIndex(buffer) ==
    LET tables == chunkTables(buffer)
        fit(t) == Min(countOf(buffer, t), (t.size - 16) \div widthOf(t))
    IN  UNION { {<<k, i>> : i \in 0..(fit(tables[k]) - 1)} : k \in 1..Len(tables) }

----------------------------------------------------------------------------
(* The metadata path moov/udta/meta/ilst, by the strict walk. *)

udtaBox(buffer) == firstOf(descend(buffer, theMoov(buffer), T_udta, 0))
metaBox(buffer) == firstOf(descend(buffer, udtaBox(buffer), T_meta, 0))
ilstBox(buffer) == firstOf(descend(buffer, metaBox(buffer), T_ilst, 4))

\* the bytes of a box
bytesOf(buffer, b) == slice(buffer, b.offset, b.offset + b.size)

\* the items of the ilst, each as its bytes
ilstItems(buffer) ==
    LET all == IF ilstBox(buffer) = <<>> THEN <<>>
               ELSE childrenOf(buffer, ilstBox(buffer)[1], 0)
    IN  [i \in 1..Len(all) |-> bytesOf(buffer, all[i])]

\* payload of the first child of `type` of the item, after `skip` bytes
childPayload(item, type, skip) ==
    LET c == selectType(walk(item, 8, Len(item)), type)
    IN  IF c = <<>> THEN <<>>
        ELSE slice(item, c[1].offset + 8 + skip, c[1].offset + c[1].size)

isFreeform(item) == typeAt(item, 0) = T_free

\* a freeform item with identity (com.stems, kaid)
isKaid(item) ==
    /\ isFreeform(item)
    /\ childPayload(item, T_mean, 4) = S_comstems
    /\ childPayload(item, T_name, 4) = S_kaid

kaidItems(buffer) ==
    {i \in 1..Len(ilstItems(buffer)) : isKaid(ilstItems(buffer)[i])}

\* the meta box starts, after its version/flags, with an hdlr of type 'mdir'
hasMdirHdlr(buffer) ==
    /\ metaBox(buffer) # <<>>
    /\ LET c == childrenOf(buffer, metaBox(buffer)[1], 4)
       IN  /\ c # <<>>
           /\ c[1].type = T_hdlr
           /\ slice(buffer, c[1].offset + 16, c[1].offset + 20) = <<109, 100, 105, 114>>

----------------------------------------------------------------------------
(* Buffers given to parseMP4Atoms on its own: a sequence of pieces, each a *)
(* box, a box header or stray bytes, and a range of the buffer to parse.   *)

\* a box header declaring `size`
header(size, type) == UInt32BE(size) \o type

Pieces ==
    { box(T_free, <<>>),                    \* a box of 8 bytes
      box(T_stem, <<1, 2, 3, 4>>),          \* a box of 12 bytes
      header(0, T_mdat) \o <<5, 6, 7, 8>>,  \* size 0: the box extends to the end
      header(64, T_udta) \o <<9, 9>>,       \* size 64: more than any buffer holds
      header(20, T_trak),                   \* size 20: a header whose box needs 12 more bytes
      header(1, T_mdat) \o UInt32BE(0) \o UInt32BE(16),  \* size 1: a 64-bit size of 16 follows
      header(4, T_stem),                    \* size 4: less than the header itself
      <<0, 0, 1>> }                         \* three stray bytes: no room for a header

RECURSIVE Buffers(_)
Buffers(n) ==
    IF n = 0 THEN {<<>>}
    ELSE LET shorter == Buffers(n - 1)
         IN  shorter \cup {b \o piece : b \in shorter, piece \in Pieces}

\* the ranges a caller parses: the whole buffer (offset 0, maxLength null,
\* line 67), the part after a first header, and the same with an explicit
\* length that ends at or 4 bytes before the end of the buffer, or of 0 for
\* the children of a box of 8 bytes (lines 83, 102, 313-317, 332)
Ranges(b) ==
    { [offset |-> 0, maxLength |-> <<>>] }
    \cup { [offset |-> o, maxLength |-> <<m>>] :
             o \in {o \in {0, 8} : o < Len(b)},
             m \in {m \in {0, Len(b) - 8, Len(b) - 4, Len(b)} : m >= 0} }

ParseInit ==
    /\ pBuffer \in Buffers(MaxPieces)
    /\ \E range \in Ranges(pBuffer) :
          /\ range.offset + (IF range.maxLength = <<>> THEN 0 ELSE range.maxLength[1])
             <= Len(pBuffer)
          /\ pOffset = range.offset
          /\ pMaxLength = range.maxLength
    /\ parsed = <<>>
    /\ ppc = "call"

\* no call of parseMP4Atoms on its own
ParseIdle ==
    /\ pBuffer = <<>>
    /\ pOffset = 0
    /\ pMaxLength = <<>>
    /\ parsed = <<>>
    /\ ppc = "call"

----------------------------------------------------------------------------
(* Strings given to createKaidAtom on its own. *)

\* characters of 1, 2, 3 and 4 UTF-8 bytes: '{', 'a', e acute, the euro
\* sign, an emoji
Chars == {123, 97, 233, 8364, 128512}

RECURSIVE Strings(_)
Strings(n) ==
    IF n = 0 THEN {<<>>}
    ELSE LET shorter == Strings(n - 1)
         IN  shorter \cup {Append(str, ch) : str \in shorter, ch \in Chars}

KaidInit ==
    /\ kJson \in Strings(MaxJsonLen)
    /\ kAtom = <<>>
    /\ kpc = "call"

\* no call of createKaidAtom on its own
KaidIdle ==
    /\ kJson = <<>>
    /\ kAtom = <<>>
    /\ kpc = "call"

\* the pieces of a buffer scanned step by step: a box of size 0, a header of
\* size 4, the header of a container of 12 bytes, a stco table of one
\* entry, and a stco table that declares 255 entries and holds none
LoopPieces ==
    { header(0, T_mdat) \o <<5, 6, 7, 8>>,
      header(4, T_stem),
      header(20, T_trak),
      tableOf(<<UInt32BE(40)>>, 4),
      box(T_stco, UInt32BE(0) \o UInt32BE(255)) }

RECURSIVE LoopBuffers(_)
LoopBuffers(n) ==
    IF n = 0 THEN {<<>>}
    ELSE LET shorter == LoopBuffers(n - 1)
         IN  shorter \cup {b \o piece : b \in shorter, piece \in LoopPieces}

\* parseMP4Atoms(buffer) or searchAtoms(buffer, 0, buffer.length) is called
LoopInit ==
    /\ lMode \in {"parse", "search"}
    /\ lBuffer \in LoopBuffers(MaxLoopPieces)
    /\ lStack = << [start |-> 0, pos |-> 0, end |-> Len(lBuffer)] >>

\* no scan run step by step
LoopIdle ==
    /\ lMode = "done"
    /\ lBuffer = <<>>
    /\ lStack = <<>>

\* the BrowserWindows one behaviour may create
Windows == 1..MaxWindows

\* the module is loaded: no YouTube window, no reference, no shortcut
YtInit ==
    /\ youtubeBrowserWindow = 0
    /\ ytWindows = [w \in Windows |-> "none"]
    /\ focused = 0
    /\ escape = FALSE

\* the tabs of TabNavigation (lines 12-22) and of handleKeyDown (lines 36-46),
\* in the order of their numbers
tabs ==
    << "player", "library", "youtube", "mixer", "effects", "requests", "server",
       "create", "editor" >>

TabIds == {tabs[i] : i \in 1..Len(tabs)}

\* TabNavigation is mounted: useState('youtube'), the first render marks the
\* button of 'youtube', and the page shows the pane of that tab
TabInit ==
    /\ activeTab = "youtube"
    /\ ariaSelected = [t \in TabIds |-> t = "youtube"]
    /\ paneHidden = [t \in TabIds |-> t # "youtube"]

UiInit == YtInit /\ TabInit

RestIdle == KaidIdle /\ LoopIdle /\ UiInit

----------------------------------------------------------------------------
(* The editor's IPC calls: paths, formats and call records.                *)
(*                                                                         *)
(* A path is the sequence of its character codes.                          *)

P_a_m4a == <<97, 46, 109, 52, 97>>          \* 'a.m4a'
P_b_MP4 == <<98, 46, 77, 80, 52>>           \* 'b.MP4'
P_c_kai == <<99, 46, 107, 97, 105>>         \* 'c.kai'
P_d_cdg == <<100, 46, 99, 100, 103>>        \* 'd.cdg'
P_kai   == <<107, 97, 105>>                 \* 'kai', a name without extension
P_none  == <<>>                             \* '', no path given
P_e_m4a == <<101, 46, 109, 52, 97>>         \* 'e.m4a'

Paths == {P_a_m4a, P_b_MP4, P_c_kai, P_d_cdg, P_kai, P_none, P_e_m4a}

E_kai == <<46, 107, 97, 105>>               \* '.kai'
E_m4a == <<46, 109, 52, 97>>                \* '.m4a'
E_mp4 == <<46, 109, 112, 52>>               \* '.mp4'

\* toLowerCase leaving every character as it is
keepCase(str) == str

\* String.prototype.toLowerCase on the letters A-Z
toLowerCase(str) ==
    [i \in 1..Len(str) |-> IF str[i] >= 65 /\ str[i] <= 90 THEN str[i] + 32 ELSE str[i]]

\* String.prototype.endsWith
endsWith(str, suffix) ==
    /\ Len(suffix) <= Len(str)
    /\ SubSeq(str, Len(str) - Len(suffix) + 1, Len(str)) = suffix

\* the format editor:saveKai determines from the file extension (lines 44-52);
\* "unsupported" stands for the throw of line 51
saveFormat(originalPath) ==
    LET lowerPath == toLowerCase(originalPath)
    IN  IF endsWith(lowerPath, E_kai) THEN "kai"
        ELSE IF endsWith(lowerPath, E_m4a) \/ endsWith(lowerPath, E_mp4) THEN "m4a-stems"
        ELSE "unsupported"

\* the format loadSong determines (kai-player-creator.md lines 1260-1269)
loadFormat(path) ==
    LET lowerPath == toLowerCase(path)
    IN  IF endsWith(lowerPath, E_kai) THEN "kai"
        ELSE IF endsWith(lowerPath, E_m4a) \/ endsWith(lowerPath, E_mp4) THEN "m4a-stems"
        ELSE "cdg-pair"

\* the slots of the IPC calls in flight
Reqs == {"r1", "r2"}

\* the title 'NT'
S_NT == <<78, 84>>

\* the kaiData an editor:saveKai call carries: lyrics, and metadata whose
\* title is <<>> when the editor sends none
IpcSongs ==
    { [lyrics |-> <<>>, metadata |-> [title |-> <<>>]],
      [lyrics |-> <<lineA>>, metadata |-> [title |-> S_NT]] }

\* the metadata M4ALoader.load can return for a file: no title, or the title 'T'
LoadedMetadata == { [title |-> <<>>], [title |-> <<84>>] }

\* dataToSave of saveM4ASong (kai-player-creator.md lines 1403-1426): the
\* loaded metadata with the fields given in the update, and the lyrics of
\* the update
dataToSave(m4aMetadata, updates) ==
    [metadata |-> [title |-> IF updates.metadata.title # <<>>
                             THEN updates.metadata.title
                             ELSE m4aMetadata.title],
     lyrics |-> updates.lyrics]

\* the M4A files on disk when the first call arrives
InitialFiles ==
    (P_a_m4a :> fileOf([meta |-> "kaid", mdatFirst |-> FALSE, width |-> 4,
                        udtaFirst |-> FALSE, huge |-> FALSE]))
    @@ (P_b_MP4 :> fileOf([meta |-> "noIlst", mdatFirst |-> TRUE, width |-> 8,
                           udtaFirst |-> FALSE, huge |-> FALSE]))
    @@ (P_e_m4a :> fileOf([meta |-> "noIlst", mdatFirst |-> FALSE, width |-> 4,
                           udtaFirst |-> FALSE, huge |-> TRUE]))

\* a slot without a call
idleReq ==
    [pc |-> "idle", op |-> "none", path |-> <<>>, song |-> [lyrics |-> <<>>],
     invoked |-> {}, kaidJson |-> <<>>, fileBuffer |-> <<>>, newFileBuffer |-> <<>>,
     response |-> "none", error |-> <<>>, raised |-> <<>>]

\* fs.promises.readFile(inputPath) with the other path's content
readFileShared(fs, path) == fs[CHOOSE p \in DOMAIN fs : p # path]

\* fs.promises.readFile(inputPath) (line 62)
readFile(fs, path) == fs[path]

IpcInit ==
    /\ files = InitialFiles
    /\ req = [r \in Reqs |-> idleReq]
    /\ calls = 0
    /\ touched = [p \in DOMAIN InitialFiles |-> 0]

----------------------------------------------------------------------------
(* M4AWriter.save as a process: the steps between its awaits. *)

Init ==
    /\ disk \in {fileOf(l) : l \in Layouts} \cup NoMoovFiles
    /\ pc = "idle"
    /\ song = [lyrics |-> <<>>]
    /\ kaidJson = <<>>
    /\ fileBuffer = <<>>
    /\ newFileBuffer = <<>>
    /\ result = "none"
    /\ prior = <<>>
    /\ saves = 0
    /\ verification = "none"
    /\ error = <<>>
    /\ IpcInit
    /\ ParseIdle
    /\ RestIdle

\* save(songData, path) up to the call of fs.promises.writeFile: the kaid JSON
\* (lines 23-24), readFile (line 62) and the new file buffer (lines 67-174).
\* An error thrown on the way is caught at lines 182 and 48.
SaveBegin(songData) ==
    /\ pc = "idle"
    /\ saves < MaxSaves
    /\ \E json \in {stringify(prepareKaidData(songData))} :
       \E r \in {injectKaidAtom(disk, json)} :
           /\ song' = songData
           /\ kaidJson' = json
           /\ fileBuffer' = disk
           /\ newFileBuffer' = r.newFileBuffer
           /\ pc' = IF r.threw THEN "idle" ELSE "open"
           /\ result' = IF r.threw THEN "failure" ELSE "none"
           /\ error' = IF r.threw THEN injectError(M_noMoov) ELSE <<>>
    /\ prior' = IF result = "success" THEN <<kaidJson>> ELSE <<>>
    /\ saves' = saves + 1
    /\ verification' = "none"
    /\ UNCHANGED <<disk, ipcVars, parseVars, restVars>>

\* fs.promises.writeFile(outputPath, ...) opens the path itself with flag 'w',
\* which truncates the file
WriteOpen ==
    /\ pc = "open"
    /\ disk' = <<>>
    /\ pc' = "writing"
    /\ UNCHANGED <<song, kaidJson, fileBuffer, newFileBuffer, result, prior, saves,
                   verification, error, ipcVars, parseVars, restVars>>

\* the open fails (permissions, a vanished directory): the error is caught
WriteOpenFail ==
    /\ pc = "open"
    /\ pc' = "idle"
    /\ result' = "failure"
    /\ error' = injectError(M_open)
    /\ UNCHANGED <<disk, song, kaidJson, fileBuffer, newFileBuffer, prior, saves,
                   verification, ipcVars, parseVars, restVars>>

\* every byte is written and the file closed
WriteData ==
    /\ pc = "writing"
    /\ disk' = newFileBuffer
    /\ pc' = "validate"
    /\ UNCHANGED <<song, kaidJson, fileBuffer, newFileBuffer, result, prior, saves,
                   verification, error, ipcVars, parseVars, restVars>>

\* the write fails (disk full, I/O error) with none or half of the bytes written
WriteFail ==
    /\ pc = "writing"
    /\ \E k \in {0, Len(newFileBuffer) \div 2} : disk' = slice(newFileBuffer, 0, k)
    /\ pc' = "idle"
    /\ result' = "failure"
    /\ error' = injectError(M_write)
    /\ UNCHANGED <<song, kaidJson, fileBuffer, newFileBuffer, prior, saves, verification,
                   ipcVars, parseVars, restVars>>

\* validate(m4aPath): music-metadata lists the tag '----:com.stems:kaid' among
\* the iTunes tags of the file, which are the items of moov/udta/meta/ilst
validate(file) == kaidItems(file) # {}

\* validate(outputPath) and the return (lines 40-47): validate answers false
\* also when reading or parsing the file throws (lines 533-536); the
\* verification is logged and success is returned either way
SaveReturn ==
    /\ pc = "validate"
    /\ \E found \in {validate(disk), FALSE} :
           verification' = IF found THEN "passed" ELSE "failed"
    /\ pc' = "idle"
    /\ result' = "success"
    /\ error' = <<>>
    /\ UNCHANGED <<disk, song, kaidJson, fileBuffer, newFileBuffer, prior, saves, ipcVars, parseVars, restVars>>

Next ==
    \/ \E songData \in Songs : SaveBegin(songData)
    \/ WriteOpen
    \/ WriteOpenFail
    \/ WriteData
    \/ WriteFail
    \/ SaveReturn

Spec == Init /\ [][Next]_vars

----------------------------------------------------------------------------
(* The editor's IPC calls as processes: ipcMain.handle('editor:saveKai'),  *)
(* ipcMain.handle('editor:loadKai'), editorService.saveSong / loadSong and *)
(* M4AWriter.save, each call advancing from one await to the next.  The    *)
(* handlers keep no lock and no queue: every call started runs at once.    *)

SaveIdle ==
    /\ disk = InitialFiles[P_a_m4a]
    /\ pc = "idle"
    /\ song = [lyrics |-> <<>>]
    /\ kaidJson = <<>>
    /\ fileBuffer = <<>>
    /\ newFileBuffer = <<>>
    /\ result = "none"
    /\ prior = <<>>
    /\ saves = 0
    /\ verification = "none"
    /\ error = <<>>

InitIpc == SaveIdle /\ IpcInit /\ ParseIdle /\ RestIdle

free(r) == req[r].pc \in {"idle", "done"} /\ calls < MaxCalls

\* the call of slot r ends with the response `response`
finish(r, response) ==
    req' = [req EXCEPT ![r].pc = "done", ![r].response = response]

\* the messages of the errors thrown outside the M4A writer
M_unsupported == "Unsupported file format"
M_pathRequired == "Path is required"
M_cdg == "CDG format not yet supported in editor"
M_loader == "ENOENT: no such file or directory, open"
M_kaiWriter == "Failed to save KAI file"
M_m4aWriter == "Failed to save M4A file"
M_read == "ENOENT: no such file or directory, open"
M_reload == "Failed to reload file"
M_range == "The value of \"value\" is out of range."

\* the handler's catch (editorHandlers.js lines 31-34, 63-66, 93-96): the call
\* of slot r ends with { success: false, error: message }
fail(r, message) ==
    req' = [req EXCEPT ![r].pc = "done", ![r].response = "failure", ![r].error = message]

\* the end of saveM4ASong (kai-player-creator.md lines 1463-1469): it throws
\* result.error, or a default message, when the writer reports no success
saveM4ASong(saved) ==
    IF ~saved.success
    THEN [threw |-> TRUE,
          message |-> IF saved.error # <<>> THEN saved.error ELSE <<M_m4aWriter>>]
    ELSE [threw |-> FALSE, message |-> <<>>]

\* M4AWriter.save around injectKaidAtom (lines 34, 47-52): an error thrown by
\* injectKaidAtom, given as <<message>> (<<>> when it threw nothing), is
\* caught and returned as { success: false, error: error.message }
saveResult(thrown) ==
    IF thrown = <<>> THEN [success |-> TRUE, error |-> <<>>]
    ELSE [success |-> FALSE, error |-> injectError(thrown[1])]

\* an error with message `message` is raised inside injectKaidAtom in the
\* save of slot r: the catches of injectKaidAtom and of save, saveM4ASong
\* and the handler's try / catch (editorHandlers.js lines 55-66) answer
raise(r, message) ==
    \E outcome \in {saveM4ASong(saveResult(<<message>>))} :
        req' = [req EXCEPT
                  ![r].pc = "done",
                  ![r].raised = <<message>>,
                  ![r].response = IF outcome.threw THEN "failure" ELSE "success",
                  ![r].error = outcome.message]

\* editor:saveKai(kaiData, originalPath) up to its first await that matters
\* (lines 38-59): an unsupported extension throws and answers success: false;
\* saveSong dispatches on the format (kai-player-creator.md lines 1296-1312)
\* and saveKAISong / saveM4ASong first load the existing file
HandleSave(r, kaiData, originalPath) ==
    /\ free(r)
    /\ calls' = calls + 1
    /\ LET format == saveFormat(originalPath)
           call == [idleReq EXCEPT !.op = "save", !.path = originalPath, !.song = kaiData]
       IN  /\ req' = [req EXCEPT ![r] =
                  IF format = "unsupported"
                  THEN [call EXCEPT !.pc = "done", !.response = "failure",
                                    !.error = <<M_unsupported>>]
                  ELSE [call EXCEPT !.pc = "loading",
                                    !.invoked = IF format = "kai" THEN {"KaiLoader"}
                                                ELSE {"M4ALoader"}]]
    /\ UNCHANGED <<files, touched, saveVars, parseVars, restVars>>

\* editor:loadKai(filePath) -> loadSong(path) up to the loader's await
\* (editorHandlers.js lines 14-35, kai-player-creator.md lines 1253-1288)
HandleLoad(r, filePath) ==
    /\ free(r)
    /\ calls' = calls + 1
    /\ LET format == loadFormat(filePath)
           call == [idleReq EXCEPT !.op = "load", !.path = filePath]
       IN  /\ req' = [req EXCEPT ![r] =
                  IF filePath = <<>> \/ format = "cdg-pair"
                  THEN [call EXCEPT !.pc = "done", !.response = "failure",
                                    !.error = IF filePath = <<>> THEN <<M_pathRequired>>
                                              ELSE <<M_cdg>>]
                  ELSE [call EXCEPT !.pc = "loading",
                                    !.invoked = IF format = "kai" THEN {"KaiLoader"}
                                                ELSE {"M4ALoader"}]]
    /\ UNCHANGED <<files, touched, saveVars, parseVars, restVars>>

\* the loader rejects (an unreadable file): the handler's catch answers
\* success: false
LoaderThrows(r) ==
    /\ req[r].pc = "loading"
    /\ fail(r, <<M_loader>>)
    /\ UNCHANGED <<files, calls, touched, saveVars, parseVars, restVars>>

\* the loader resolves.  A load answers success.  A save goes on to the
\* writer: KaiWriter.save, or M4AWriter.save up to its readFile (lines 16-34,
\* 62) with the lyrics of the call (kai-player-creator.md lines 1413-1426)
LoaderReturns(r) ==
    /\ req[r].pc = "loading"
    /\ IF req[r].op = "load"
       THEN finish(r, "success") /\ UNCHANGED touched
       ELSE IF "KaiLoader" \in req[r].invoked
       THEN /\ req' = [req EXCEPT ![r].pc = "kaiWriter",
                                  ![r].invoked = @ \cup {"KaiWriter"}]
            /\ UNCHANGED touched
       ELSE /\ \E m4aMetadata \in LoadedMetadata :
                 req' = [req EXCEPT
                           ![r].pc = "read",
                           ![r].invoked = @ \cup {"M4AWriter"},
                           ![r].kaidJson = stringify(prepareKaidData(
                                               dataToSave(m4aMetadata, req[r].song)))]
            /\ touched' = [touched EXCEPT ![req[r].path] = @ + 1]
    /\ UNCHANGED <<files, calls, saveVars, parseVars, restVars>>

\* KaiWriter.save resolves with success true or false
\* (kai-player-creator.md lines 1382-1390)
KaiWriterReturns(r) ==
    /\ req[r].pc = "kaiWriter"
    /\ \/ finish(r, "success")
       \/ fail(r, <<M_kaiWriter>>)
    /\ UNCHANGED <<files, calls, touched, saveVars, parseVars, restVars>>

\* readFile resolves and injectKaidAtom builds the new file (lines 62-174)
ReqRead(r) ==
    /\ req[r].pc = "read"
    /\ \E buffer \in {readFile(files, req[r].path)} :
       \E out \in {injectKaidAtom(buffer, req[r].kaidJson)} :
       \E outcome \in {saveM4ASong(saveResult(<<M_noMoov>>))} :
           req' = [req EXCEPT
                     ![r].fileBuffer = buffer,
                     ![r].newFileBuffer = out.newFileBuffer,
                     ![r].pc = IF out.threw THEN "done" ELSE "open",
                     ![r].raised = IF out.threw THEN <<M_noMoov>>
                                   ELSE IF injectWarned(buffer, req[r].kaidJson)
                                   THEN <<M_range>>
                                   ELSE <<>>,
                     ![r].response = IF ~out.threw THEN "none"
                                     ELSE IF outcome.threw THEN "failure" ELSE "success",
                     ![r].error = IF out.threw THEN outcome.message ELSE <<>>]
    /\ UNCHANGED <<files, calls, touched, saveVars, parseVars, restVars>>

\* readFile rejects (the file has vanished since the loader read it)
ReqReadFail(r) ==
    /\ req[r].pc = "read"
    /\ raise(r, M_read)
    /\ UNCHANGED <<files, calls, touched, saveVars, parseVars, restVars>>

\* writeFile opens the path and truncates it (line 177)
ReqWriteOpen(r) ==
    /\ req[r].pc = "open"
    /\ files' = [files EXCEPT ![req[r].path] = <<>>]
    /\ req' = [req EXCEPT ![r].pc = "writing"]
    /\ UNCHANGED <<calls, touched, saveVars, parseVars, restVars>>

ReqWriteOpenFail(r) ==
    /\ req[r].pc = "open"
    /\ raise(r, M_open)
    /\ UNCHANGED <<files, calls, touched, saveVars, parseVars, restVars>>

ReqWriteData(r) ==
    /\ req[r].pc = "writing"
    /\ files' = [files EXCEPT ![req[r].path] = req[r].newFileBuffer]
    /\ req' = [req EXCEPT ![r].pc = "validate"]
    /\ UNCHANGED <<calls, touched, saveVars, parseVars, restVars>>

ReqWriteFail(r) ==
    /\ req[r].pc = "writing"
    /\ files' = [files EXCEPT ![req[r].path] =
                    slice(req[r].newFileBuffer, 0, Len(req[r].newFileBuffer) \div 2)]
    /\ raise(r, M_write)
    /\ UNCHANGED <<calls, touched, saveVars, parseVars, restVars>>

\* validate resolves, save returns success: true, saveM4ASong and the handler
\* pass it on (lines 40-47, editorHandlers.js lines 61-62)
ReqReturn(r) ==
    /\ req[r].pc = "validate"
    /\ finish(r, "success")
    /\ UNCHANGED <<files, calls, touched, saveVars, parseVars, restVars>>

\* editor:reloadKai(filePath) up to mainApp.loadKaiFile / loadM4AFile
\* (editorHandlers.js lines 70-84)
HandleReload(r, filePath) ==
    /\ free(r)
    /\ calls' = calls + 1
    /\ LET call == [idleReq EXCEPT !.op = "reload", !.path = filePath]
       IN  req' = [req EXCEPT ![r] =
                  IF saveFormat(filePath) = "unsupported"
                  THEN [call EXCEPT !.pc = "done", !.response = "failure",
                                    !.error = <<M_unsupported>>]
                  ELSE [call EXCEPT !.pc = "reloading"]]
    /\ UNCHANGED <<files, touched, saveVars, parseVars, restVars>>

\* mainApp.loadKaiFile / loadM4AFile resolves with success, resolves without
\* it, or rejects (editorHandlers.js lines 86-96)
ReloadReturns(r) ==
    /\ req[r].pc = "reloading"
    /\ \/ finish(r, "success")
       \/ fail(r, <<M_reload>>)
       \/ fail(r, <<M_loader>>)
    /\ UNCHANGED <<files, calls, touched, saveVars, parseVars, restVars>>

NextIpc ==
    \/ \E r \in Reqs, kaiData \in IpcSongs, originalPath \in Paths :
           HandleSave(r, kaiData, originalPath)
    \/ \E r \in Reqs, filePath \in Paths : HandleLoad(r, filePath)
    \/ \E r \in Reqs, filePath \in Paths : HandleReload(r, filePath)
    \/ \E r \in Reqs : ReloadReturns(r)
    \/ \E r \in Reqs : ReqReadFail(r)
    \/ \E r \in Reqs : LoaderThrows(r)
    \/ \E r \in Reqs : LoaderReturns(r)
    \/ \E r \in Reqs : KaiWriterReturns(r)
    \/ \E r \in Reqs : ReqRead(r)
    \/ \E r \in Reqs : ReqWriteOpen(r)
    \/ \E r \in Reqs : ReqWriteOpenFail(r)
    \/ \E r \in Reqs : ReqWriteData(r)
    \/ \E r \in Reqs : ReqWriteFail(r)
    \/ \E r \in Reqs : ReqReturn(r)

SpecIpc == InitIpc /\ [][NextIpc]_vars

\* the last SaveBegin built a new file from fileBuffer
Injected == newFileBuffer # <<>>

\* old moov end and moov size delta of the last save, from the two files
MoovEnd == theMoov(fileBuffer)[1].offset + theMoov(fileBuffer)[1].size
Delta == Len(newFileBuffer) - Len(fileBuffer)

\* the output has the same tables, of the same widths and entry counts
SameTables ==
    LET ti == chunkTables(fileBuffer)
        to == chunkTables(newFileBuffer)
    IN  /\ Len(ti) = Len(to)
        /\ \A k \in 1..Len(ti) :
              /\ ti[k].type = to[k].type
              /\ countOf(fileBuffer, ti[k]) = countOf(newFileBuffer, to[k])

\* the value o + d of an offset o = [hi, lo] is the value of p = [hi, lo]
isShifted(o, d, p) ==
    LET sum == addDelta(o, d)
    IN  sum.carry = 0 /\ p.hi = sum.hi /\ p.lo = sum.lo

\* C1: after injectKaidAtom changes the moov size by D # 0, every entry o of
\* every stco and co64 table under moov/trak/mdia/minf/stbl with o >= T (the
\* old moov end) holds o + D in the output, and every entry below T keeps its
\* value; so the entries changed are exactly the source entries >= T.
C1_ShiftsEveryOffset ==
    (Injected /\ Delta # 0) =>
        /\ SameTables
        /\ \A e \in entryIndex(fileBuffer) :
              LET o == entryOf(fileBuffer, chunkTables(fileBuffer)[e[1]], e[2])
                  p == entryOf(newFileBuffer, chunkTables(newFileBuffer)[e[1]], e[2])
              IN  IF offsetGE(o, MoovEnd) THEN isShifted(o, Delta, p) ELSE p = o

\* an offset is valid in a file when ChunkLen bytes at it lie in the payload
\* of a top-level mdat box
validOffset(buffer, o) ==
    /\ \A i \in 1..Len(o.hi) : o.hi[i] = 0
    /\ \E j \in 1..Len(topLevel(buffer)) :
          LET b == topLevel(buffer)[j]
          IN  b.type = T_mdat /\ o.lo >= b.offset + 8
              /\ o.lo + ChunkLen <= b.offset + b.size

ValidOffsets(buffer) ==
    /\ theMoov(buffer) # <<>>
    /\ entryIndex(buffer) # {}
    /\ \A e \in entryIndex(buffer) :
          validOffset(buffer, entryOf(buffer, chunkTables(buffer)[e[1]], e[2]))

C8_OutsideMoovCopied ==
    Injected =>
        LET m == theMoov(fileBuffer)[1]
            newSize == readUInt32BE(newFileBuffer, m.offset)
        IN  /\ typeAt(newFileBuffer, m.offset) = T_moov
            /\ slice(newFileBuffer, 0, m.offset) = slice(fileBuffer, 0, m.offset)
            /\ slice(newFileBuffer, m.offset + newSize, Len(newFileBuffer))
               = slice(fileBuffer, m.offset + m.size, Len(fileBuffer))
            /\ Len(newFileBuffer) = Len(fileBuffer) + (newSize - m.size)

\* a save changed the size of a moov that has bytes before and after it
C8_Witness ==
    /\ Injected
    /\ Delta # 0
    /\ theMoov(fileBuffer)[1].offset > 0
    /\ MoovEnd < Len(fileBuffer)
    /\ disk = newFileBuffer

\* the file at the path is the one the last save wrote, and save returned success
Saved == pc = "idle" /\ result = "success"

\* C3: after any sequence of saves the ilst holds exactly one freeform item
\* with identity (com.stems, kaid), and it holds the JSON of the most recent
\* save: an existing kaid item is replaced, never duplicated.
C3_OneKaidItem ==
    Saved =>
        /\ Cardinality(kaidItems(disk)) = 1
        /\ \A i \in kaidItems(disk) :
              childPayload(ilstItems(disk)[i], T_data, 8) = kaidJson

\* C4: a save leaves every ilst item that is not the (com.stems, kaid) item,
\* freeform or not, present and byte-identical in the output ilst.
C4_OtherItemsKept ==
    Injected =>
        \A i \in 1..Len(ilstItems(fileBuffer)) :
            ~isKaid(ilstItems(fileBuffer)[i]) =>
                \E j \in 1..Len(ilstItems(newFileBuffer)) :
                    ilstItems(newFileBuffer)[j] = ilstItems(fileBuffer)[i]

\* C5: when the input moov has no udta, or a udta without meta, or a meta
\* without ilst, the output moov has the kaid item at moov/udta/meta/ilst,
\* the meta starting with an 'mdir' hdlr.
C5_ChainSynthesised ==
    (Injected /\ ilstBox(fileBuffer) = <<>>) =>
        /\ hasMdirHdlr(newFileBuffer)
        /\ ilstBox(newFileBuffer) # <<>>
        /\ \E i \in kaidItems(newFileBuffer) :
              childPayload(ilstItems(newFileBuffer)[i], T_data, 8) = kaidJson

\* the children of box b tile its payload after `skip` bytes
tiled(buffer, b, skip) ==
    /\ b.size >= 8 + skip
    /\ tiles(buffer, b.offset + 8 + skip, b.offset + b.size)

\* C6: in the output every rebuilt container (moov, udta, meta, ilst, the
\* kaid item) has a size of header plus payload, and its children tile its
\* payload (for meta after the 4-byte version/flags).
C6_ContainersTiled ==
    Injected =>
        LET b == newFileBuffer
            udtas == descend(b, theMoov(b), T_udta, 0)
            metas == descend(b, udtas, T_meta, 0)
            ilsts == descend(b, metas, T_ilst, 4)
            frees == descend(b, ilsts, T_free, 0)
        IN  /\ theMoov(b) # <<>> /\ tiled(b, theMoov(b)[1], 0)
            /\ udtas # <<>> /\ \A i \in 1..Len(udtas) : tiled(b, udtas[i], 0)
            /\ metas # <<>> /\ \A i \in 1..Len(metas) : tiled(b, metas[i], 4)
            /\ ilsts # <<>> /\ \A i \in 1..Len(ilsts) : tiled(b, ilsts[i], 0)
            /\ frees # <<>> /\ \A i \in 1..Len(frees) : tiled(b, frees[i], 0)

\* C7: saving the same song data again leaves the file byte-identical.
C7_Idempotent ==
    (Injected /\ prior = <<kaidJson>>) => newFileBuffer = fileBuffer

\* some stco entry at or above the old moov end cannot hold its shifted value
stcoOverflows ==
    \E e \in entryIndex(fileBuffer) :
        LET t == chunkTables(fileBuffer)[e[1]]
            o == entryOf(fileBuffer, t, e[2])
        IN  t.type = T_stco /\ offsetGE(o, MoovEnd) /\ addDelta(o, Delta).carry # 0

\* offset o, widened to the eight bytes of a co64 entry
widen(o) == [hi |-> [i \in 1..(5 - Len(o.hi)) |-> 0] \o o.hi, lo |-> o.lo]

\* C9: when adding the delta to a stco entry would exceed 2^32 - 1, the table
\* is upgraded to co64 and every entry of every table still equals its
\* correctly shifted offset.
C9_OverflowUpgrades ==
    (Injected /\ Delta # 0 /\ stcoOverflows) =>
        LET ti == chunkTables(fileBuffer)
            to == chunkTables(newFileBuffer)
        IN  /\ Len(ti) = Len(to)
            /\ \A e \in entryIndex(fileBuffer) :
                  LET o == entryOf(fileBuffer, ti[e[1]], e[2])
                      p == entryOf(newFileBuffer, to[e[1]], e[2])
                  IN  /\ countOf(newFileBuffer, to[e[1]]) = countOf(fileBuffer, ti[e[1]])
                      /\ IF offsetGE(o, MoovEnd)
                         THEN isShifted(widen(o), Delta, widen(p))
                         ELSE widen(p) = widen(o)

\* C10: a save either completes with the new file at the path or fails with
\* the pre-save file at the path, and in between the path never holds
\* anything but the pre-save file.
C10_AtomicPublish ==
    /\ pc \in {"open", "writing"} => disk = fileBuffer
    /\ pc = "validate" => disk = newFileBuffer
    /\ (pc = "idle" /\ result = "success") => disk = newFileBuffer
    /\ (pc = "idle" /\ result = "failure") => disk = fileBuffer

\* C11: when the post-write validation fails (the kaid item is not found in
\* the written file), save restores the pre-save content and reports a
\* failure: it never reports success for a file that failed validation.
C11_ValidationFailureRestores ==
    verification = "failed" => (result = "failure" /\ disk = fileBuffer)

----------------------------------------------------------------------------
(* The lyric lines of a save and of the kaid it writes. *)

\* the singer of a line as the editor reads it (LyricLine.jsx line 44):
\* line.singer || (line.backup === true ? 'backup' : '')
singerOf(line) ==
    IF line.singer # <<>> THEN line.singer
    ELSE IF line.backup THEN <<98, 97, 99, 107, 117, 112>> ELSE <<>>

\* start and end time of a line: the member set, else its legacy twin
startOf(line) == IF line.start # 0 THEN line.start ELSE line.startTimeSec
endOf(line) == IF line.end # 0 THEN line.end ELSE line.endTimeSec

\* lines i < j of the same singer overlap in time
overlapping(lyrics, i, j) ==
    /\ i < j
    /\ singerOf(lyrics[i]) = singerOf(lyrics[j])
    /\ startOf(lyrics[j]) < endOf(lyrics[i])
    /\ startOf(lyrics[i]) < endOf(lyrics[j])

HasOverlap(songData) ==
    \E i, j \in 1..Len(songData.lyrics) : overlapping(songData.lyrics, i, j)

\* a save of `song` has been started
Started == saves > 0

\* C12: a save of a song in which two lines of the same singer overlap is
\* rejected and leaves the file unchanged: it writes nothing and returns a
\* failure (lines of different singers may overlap).
C12_OverlapRejected ==
    (Started /\ HasOverlap(song)) =>
        (pc = "idle" /\ result = "failure" /\ disk = fileBuffer)

\* JSON.parse of the lines of a kaid JSON, from position p (1-based) on
RECURSIVE parseLines(_, _)
parseLines(json, p) ==
    IF p > Len(json) \/ json[p] = 93
    THEN <<>>
    ELSE LET q == CHOOSE k \in (p + 3)..Len(json) :
                      json[k] = 34 /\ \A m \in (p + 3)..(k - 1) : json[m] # 34
             dis == q < Len(json) /\ json[q + 1] = 100
             r == q + 1 + (IF dis THEN 1 ELSE 0)
         IN  << [start |-> json[p] - 48, end |-> json[p + 1] - 48,
                 text |-> SubSeq(json, p + 3, q - 1), disabled |-> dis] >>
             \o parseLines(json, IF r <= Len(json) /\ json[r] = 44 THEN r + 1 ELSE r)

\* the lines of a kaid JSON '[' lines ']'
linesOf(json) == parseLines(json, 2)

\* the data payloads of the (com.stems, kaid) items of a file
kaidPayloads(file) ==
    { childPayload(ilstItems(file)[i], T_data, 8) : i \in kaidItems(file) }

\* the kaid JSON of the last save is in the kaid atom of the file it built
Written ==
    /\ Injected
    /\ \E atom \in {createKaidAtom(kaidJson)} :
       \E k \in 1..(Len(newFileBuffer) - Len(atom) + 1) :
           /\ newFileBuffer[k + 4] = 45
           /\ SubSeq(newFileBuffer, k, k + Len(atom) - 1) = atom

\* two songs agree on the singer and the word timings of every line
sameSingersAndWords(s, t) ==
    /\ Len(s.lyrics) = Len(t.lyrics)
    /\ \A i \in 1..Len(s.lyrics) :
          /\ singerOf(s.lyrics[i]) = singerOf(t.lyrics[i])
          /\ s.lyrics[i].words = t.lyrics[i].words

\* C13: the singer assignment and the word timings of every input line are in
\* the kaid written by save: a song with another singer or other word
\* timings on some line is written as another kaid JSON.
C13_SingerAndWordsWritten ==
    Written =>
        \A s \in Songs :
            stringify(prepareKaidData(s)) = kaidJson => sameSingersAndWords(s, song)

\* json holds the member m
hasMember(json, m) ==
    \E k \in 1..(Len(json) - Len(m) + 1) : SubSeq(json, k, k + Len(m) - 1) = m

\* C14: a member of the file's kaid JSON that the writer does not interpret
\* is still in the kaid after the save.
C14_UnknownKeysKept ==
    (Injected /\ \E j \in kaidPayloads(fileBuffer) : hasMember(j, unknownMember)) =>
        \E j \in kaidPayloads(newFileBuffer) : hasMember(j, unknownMember)

\* C15: the kaid written has one entry per input line, in order, and each
\* entry's start and end are the line's start and end time, also when a
\* time is 0.
C15_LineTimesWritten ==
    Written =>
        LET lines == linesOf(kaidJson)
        IN  /\ Len(lines) = Len(song.lyrics)
            /\ \A i \in 1..Len(lines) :
                  /\ lines[i].start = startOf(song.lyrics[i])
                  /\ lines[i].end = endOf(song.lyrics[i])
                  /\ lines[i].text = song.lyrics[i].text

\* a save wrote to the path the kaid of a line that starts and ends at time 0
C15_Witness ==
    /\ Written
    /\ disk = newFileBuffer
    /\ \E i \in 1..Len(song.lyrics) :
          startOf(song.lyrics[i]) = 0 /\ endOf(song.lyrics[i]) = 0

\* C23: if the file has no top-level 'moov' box, save returns {success: false,
\* error} with a message reporting the missing moov atom, does not throw,
\* and performs no write to the output path.
C23_NoMoovFails ==
    (Started /\ theMoov(fileBuffer) = <<>>) =>
        /\ pc = "idle"
        /\ result = "failure"
        /\ error = <<"Failed to inject kaid atom: ", "No moov atom found in M4A file">>
        /\ disk = fileBuffer

\* a save of a file of boxes without a moov has returned
C23_Witness ==
    /\ Started
    /\ theMoov(fileBuffer) = <<>>
    /\ Len(fileBuffer) > 8
    /\ result = "failure"
    /\ disk = fileBuffer

----------------------------------------------------------------------------
(* M4AWriter.parseMP4Atoms called on its own. *)

InitParse == SaveIdle /\ IpcInit /\ ParseInit /\ RestIdle

\* parseMP4Atoms(buffer, offset, maxLength) returns its list of atoms: the
\* function has no throw, and within the buffer no read of it throws
ParseCall ==
    /\ ppc = "call"
    /\ parsed' = parseMP4Atoms(pBuffer, pOffset, pMaxLength)
    /\ ppc' = "returned"
    /\ UNCHANGED <<pBuffer, pOffset, pMaxLength, saveVars, ipcVars, restVars>>

NextParse == ParseCall

SpecParse == InitParse /\ [][NextParse]_vars

\* the end of the range [offset, offset + maxLength) the caller asks for
pEnd == IF pMaxLength = <<>> THEN Len(pBuffer) ELSE pOffset + pMaxLength[1]

\* the size a box header at pos declares under ISO BMFF: the 32-bit field, or
\* for a field of 1 the 64-bit size after the tag (-1 when the range has no
\* room for it, 2^31 - 1 when it is 2^31 or more)
boxSize(buffer, pos, end) ==
    LET size == readUInt32BE(buffer, pos)
    IN  IF size # 1 THEN size
        ELSE IF end - pos < 16 THEN -1
        ELSE IF readUInt32BE(buffer, pos + 8) # 0 THEN 2147483647
        ELSE readUInt32BE(buffer, pos + 12)

\* what a walk of the range [pos, end) meets first, box after box: "ok" at the
\* end of the range or at a box of size 0 (which extends to the end),
\* "truncated" where fewer than 8 bytes are left for a header, "malformed"
\* where the declared size exceeds the bytes left in the range
RECURSIVE scan(_, _, _)
scan(buffer, pos, end) ==
    IF pos >= end THEN "ok"
    ELSE IF end - pos < 8 THEN "truncated"
    ELSE LET size == boxSize(buffer, pos, end)
         IN  IF size = 0 THEN "ok"
             ELSE IF size < 8 \/ size > end - pos THEN "malformed"
             ELSE scan(buffer, pos + size, end)

\* C19: parsing a range in which a box declares a size larger than the bytes
\* left in the range fails with MalformedBox, and a range with fewer than 8
\* bytes left where a header is expected fails with TruncatedBox: the parser
\* never returns a list of boxes for such a range.
C19_BadRangeFails ==
    ppc = "returned" => scan(pBuffer, pOffset, pEnd) = "ok"

\* the position of the first box of size 0 met by a walk of [pos, end), as
\* <<pos>>, or <<>> when the walk meets none
RECURSIVE zeroBox(_, _, _)
zeroBox(buffer, pos, end) ==
    IF end - pos < 8 THEN <<>>
    ELSE LET size == boxSize(buffer, pos, end)
         IN  IF size = 0 THEN <<pos>>
             ELSE IF size < 8 \/ size > end - pos THEN <<>>
             ELSE zeroBox(buffer, pos + size, end)

\* C20: a box whose declared size is 0 extends to the end of the enclosing
\* range and is returned as a box of that size, not dropped.
C20_SizeZeroToEnd ==
    (ppc = "returned" /\ zeroBox(pBuffer, pOffset, pEnd) # <<>>) =>
        \E i \in 1..Len(parsed) :
            /\ parsed[i].offset = zeroBox(pBuffer, pOffset, pEnd)[1]
            /\ parsed[i].size = pEnd - parsed[i].offset

----------------------------------------------------------------------------
(* M4AWriter.createKaidAtom called on its own. *)

InitKaid == SaveIdle /\ IpcInit /\ ParseIdle /\ KaidInit /\ LoopIdle /\ UiInit

\* createKaidAtom(kaidJson) returns the '----' atom (lines 232-261)
CreateKaidAtom ==
    /\ kpc = "call"
    /\ kAtom' = createKaidAtom(BufferFrom(kJson))
    /\ kpc' = "created"
    /\ UNCHANGED <<kJson, saveVars, ipcVars, parseVars, loopVars, uiVars>>

NextKaid == CreateKaidAtom

SpecKaid == InitKaid /\ [][NextKaid]_vars

\* the code points of well-formed UTF-8 bytes
RECURSIVE utf8Decode(_)
utf8Decode(bytes) ==
    IF bytes = <<>> THEN <<>>
    ELSE LET b == bytes[1]
             n == IF b < 128 THEN 1 ELSE IF b < 224 THEN 2 ELSE IF b < 240 THEN 3 ELSE 4
             lead == IF n = 1 THEN b ELSE IF n = 2 THEN b - 192
                     ELSE IF n = 3 THEN b - 224 ELSE b - 240
             RECURSIVE cont(_, _)
             cont(acc, i) == IF i > n THEN acc ELSE cont(acc * 64 + (bytes[i] - 128), i + 1)
         IN  <<cont(lead, 2)>> \o utf8Decode(SubSeq(bytes, n + 1, Len(bytes)))

\* reading a freeform item back: the children of the '----' box, the text
\* after the 4 flag bytes of 'mean' and 'name', the text after type code and
\* locale of 'data'
decodeFreeform(atom) ==
    LET children == parseMP4Atoms(atom, 8, <<>>)
        payload(i, skip) ==
            slice(atom, children[i].dataOffset + skip, children[i].offset + children[i].size)
    IN  [types |-> [i \in 1..Len(children) |-> children[i].type],
         namespace |-> payload(1, 4),
         name |-> payload(2, 4),
         value |-> utf8Decode(payload(3, 8))]

\* C22: createKaidAtom(json) is a '----' box whose payload is exactly the
\* three boxes 'mean' (4 zero bytes, 'com.stems'), 'name' (4 zero bytes,
\* 'kaid') and 'data' (type code 1, locale 0, the UTF-8 bytes of json), in
\* this order, and decoding the box gives back (com.stems, kaid, json).
C22_KaidAtomRoundTrip ==
    kpc = "created" =>
        /\ kAtom = box(T_free,
                       box(T_mean, <<0, 0, 0, 0>> \o S_comstems)
                       \o box(T_name, <<0, 0, 0, 0>> \o S_kaid)
                       \o box(T_data, <<0, 0, 0, 1,  0, 0, 0, 0>> \o BufferFrom(kJson)))
        /\ decodeFreeform(kAtom) =
               [types |-> <<T_mean, T_name, T_data>>, namespace |-> S_comstems,
                name |-> S_kaid, value |-> kJson]

\* an atom created for a string with characters of several bytes
C22_Witness ==
    /\ kpc = "created"
    /\ Len(kJson) >= 2
    /\ \E i \in 1..Len(kJson) : kJson[i] >= 65536
    /\ Len(kAtom) > 53 + Len(kJson)

\* the boxes of the range [pos, end) under ISO BMFF, up to the first header
\* that is truncated, malformed or of size 0: offset, size and whether the
\* size is the 64-bit one
RECURSIVE isoBoxes(_, _, _)
isoBoxes(buffer, pos, end) ==
    IF end - pos < 8 THEN <<>>
    ELSE LET size == boxSize(buffer, pos, end)
         IN  IF size < 8 \/ size > end - pos THEN <<>>
             ELSE << [offset |-> pos, size |-> size,
                      extended |-> readUInt32BE(buffer, pos) = 1] >>
                  \o isoBoxes(buffer, pos + size, end)

\* C21: a box whose 32-bit size field is 1 is parsed with the 8-byte extended
\* size that follows (header size 16): it is returned with that size, and the
\* boxes returned after it start at or after its end.
C21_ExtendedSize ==
    ppc = "returned" =>
        \A k \in 1..Len(isoBoxes(pBuffer, pOffset, pEnd)) :
            LET b == isoBoxes(pBuffer, pOffset, pEnd)[k]
            IN  b.extended =>
                    /\ \E i \in 1..Len(parsed) :
                           parsed[i].offset = b.offset /\ parsed[i].size = b.size
                    /\ \A i \in 1..Len(parsed) :
                           parsed[i].offset > b.offset =>
                               parsed[i].offset >= b.offset + b.size

\* the range is exactly tiled by boxes with 32-bit sizes of 8 or more
exactlyTiled ==
    LET boxes == isoBoxes(pBuffer, pOffset, pEnd)
    IN  /\ \A k \in 1..Len(boxes) : ~boxes[k].extended
        /\ IF boxes = <<>> THEN pOffset = pEnd
           ELSE boxes[Len(boxes)].offset + boxes[Len(boxes)].size = pEnd

\* C26: for a range exactly tiled by boxes with valid 32-bit sizes of 8 or
\* more (a range of zero boxes and a last box of 8 bytes included),
\* parseMP4Atoms returns exactly those boxes in order, each with its offset,
\* its size and dataOffset = offset + 8.
C26_TiledRangeParsed ==
    (ppc = "returned" /\ exactlyTiled) =>
        LET boxes == isoBoxes(pBuffer, pOffset, pEnd)
        IN  parsed = [k \in 1..Len(boxes) |->
                        [type |-> typeAt(pBuffer, boxes[k].offset),
                         offset |-> boxes[k].offset,
                         size |-> boxes[k].size,
                         dataOffset |-> boxes[k].offset + 8]]

\* C27: every box returned by parseMP4Atoms(buffer, offset, maxLength) lies
\* entirely inside [offset, offset + maxLength), for every maxLength >= 0 and
\* every content of the buffer.
C27_BoxesInsideRange ==
    ppc = "returned" =>
        \A i \in 1..Len(parsed) :
            /\ parsed[i].offset >= pOffset
            /\ parsed[i].offset < pEnd
            /\ parsed[i].offset + parsed[i].size <= pEnd

----------------------------------------------------------------------------
(* The loops of parseMP4Atoms and of updateChunkOffsets, step by step. *)

InitLoop == SaveIdle /\ IpcInit /\ ParseIdle /\ KaidIdle /\ LoopInit /\ UiInit

\* the call in progress
top == lStack[Len(lStack)]

\* one iteration of the while loop of parseMP4Atoms (lines 196-213)
ParseIteration ==
    /\ lMode = "parse"
    /\ \E it \in {parseIter(lBuffer, top.pos, top.end)} :
          IF it.done
          THEN lMode' = "done" /\ UNCHANGED lStack
          ELSE /\ lStack' = [lStack EXCEPT ![Len(lStack)].pos = it.pos]
               /\ UNCHANGED lMode
    /\ UNCHANGED <<lBuffer, saveVars, ipcVars, parseVars, atomVars, uiVars>>

\* one iteration of the while loop of searchAtoms (lines 387-450), with the
\* size delta 1 and the threshold 0 of a save that grows moov: the loop ends
\* and the call returns, or the position advances, or the iteration calls
\* searchAtoms for the children and goes on after the box when it returns
SearchIteration ==
    /\ lMode = "search"
    /\ \E it \in {searchIter(lBuffer, top.pos, top.end, 1, 0)} :
          /\ lBuffer' = it.buffer
          /\ IF it.kind = "return"
             THEN IF Len(lStack) = 1
                  THEN lMode' = "done" /\ UNCHANGED lStack
                  ELSE lStack' = SubSeq(lStack, 1, Len(lStack) - 1) /\ UNCHANGED lMode
             ELSE /\ UNCHANGED lMode
                  /\ lStack' =
                        [lStack EXCEPT ![Len(lStack)].pos = it.pos]
                        \o (IF it.kind = "call"
                            THEN << [start |-> it.start, pos |-> it.start, end |-> it.end] >>
                            ELSE <<>>)
    /\ UNCHANGED <<saveVars, ipcVars, parseVars, atomVars, uiVars>>

NextLoop == ParseIteration \/ SearchIteration

SpecLoop == InitLoop /\ [][NextLoop]_vars

\* every iteration that can run does run in the end
SpecLoopFair == SpecLoop /\ WF_vars(NextLoop)

\* an iteration moves the position of its call forward, and a call made by
\* it covers a range shorter than the range of the caller
Progress ==
    /\ Len(lStack') = Len(lStack) =>
           \/ lMode' = "done"
           \/ lStack'[Len(lStack)].pos > lStack[Len(lStack)].pos
    /\ Len(lStack') > Len(lStack) =>
           /\ lStack'[Len(lStack)].pos > lStack[Len(lStack)].pos
           /\ lStack'[Len(lStack')].end - lStack'[Len(lStack')].start
                 < lStack[Len(lStack)].end - lStack[Len(lStack)].start

\* C28: parseMP4Atoms and the box scan of updateChunkOffsets terminate on
\* every finite buffer, whatever size fields it contains: the scan position
\* strictly increases on every iteration, each recursive call covers a
\* strictly smaller range, and the scan reaches its end.
C28_ScansTerminate == [][Progress]_loopVars /\ <>(lMode = "done")

\* a scan has ended after an iteration over a size field between 1 and 7
\* and a call for the children of a container
C28_Witness ==
    /\ lMode = "done"
    /\ lStack # <<>>
    /\ lStack[1].pos > 0
    /\ \E k \in 0..(Len(lBuffer) - 8) :
           readUInt32BE(lBuffer, k) \in 1..7 \/ readUInt32BE(lBuffer, k) = 0

----------------------------------------------------------------------------
(* The YouTube browser window (main/handlers/youtubeSearchHandlers.js).     *)
(*                                                                         *)
(* win.close() asks Electron to close the window: the window is destroyed  *)
(* and its 'closed' event is emitted in a later turn of the event loop,    *)
(* never inside close().                                                   *)

InitYt == SaveIdle /\ IpcInit /\ ParseIdle /\ RestIdle

isDestroyed(w) == ytWindows[w] = "closed"

\* the windows after win.close() on window w
close(w) ==
    [ytWindows EXCEPT ![w] = IF @ = "open" THEN "closing" ELSE @]

\* ipcMain.handle('youtube:openVideo'), lines 18-66: closes the window
\* referred to, creates the next one and keeps the reference to it; the
\* listeners of lines 42-66 are the actions Focus, Blur and Closed of the new
\* window (the handler's await of loadURL and its return change no state)
OpenVideo ==
    \E new \in Windows :
        /\ ytWindows[new] = "none"
        /\ \A w \in Windows : w < new => ytWindows[w] # "none"
        /\ LET closed == IF youtubeBrowserWindow # 0 /\ ~isDestroyed(youtubeBrowserWindow)
                         THEN close(youtubeBrowserWindow)
                         ELSE ytWindows
           IN  ytWindows' = [closed EXCEPT ![new] = "open"]
        /\ youtubeBrowserWindow' = new
        /\ UNCHANGED <<focused, escape, tabVars, saveVars, ipcVars, parseVars,
                       atomVars, loopVars>>

\* window w gets the focus: its 'focus' listener (lines 42-50) registers the
\* Escape shortcut
Focus(w) ==
    /\ ytWindows[w] \in {"open", "closing"}
    /\ focused = 0
    /\ focused' = w
    /\ escape' = TRUE
    /\ UNCHANGED <<youtubeBrowserWindow, ytWindows, tabVars, saveVars, ipcVars,
                   parseVars, atomVars, loopVars>>

\* window w loses the focus: its 'blur' listener (lines 52-55) unregisters
\* the shortcut
Blur(w) ==
    /\ focused = w
    /\ focused' = 0
    /\ escape' = FALSE
    /\ UNCHANGED <<youtubeBrowserWindow, ytWindows, tabVars, saveVars, ipcVars,
                   parseVars, atomVars, loopVars>>

\* the callback of the shortcut (lines 44-49) runs when Escape is pressed
\* while the shortcut is registered
EscapePressed ==
    /\ escape
    /\ ytWindows' = IF youtubeBrowserWindow # 0 /\ ~isDestroyed(youtubeBrowserWindow)
                    THEN close(youtubeBrowserWindow)
                    ELSE ytWindows
    /\ UNCHANGED <<youtubeBrowserWindow, focused, escape, tabVars, saveVars,
                   ipcVars, parseVars, atomVars, loopVars>>

\* the user closes window w with the window manager (line 62)
UserClose(w) ==
    /\ ytWindows[w] = "open"
    /\ ytWindows' = close(w)
    /\ UNCHANGED <<youtubeBrowserWindow, focused, escape, tabVars, saveVars,
                   ipcVars, parseVars, atomVars, loopVars>>

\* window w, asked to close, is destroyed and emits 'closed': its two
\* listeners (lines 57-60 and 63-66) unregister the shortcut and clear the
\* module variable
Closed(w) ==
    /\ ytWindows[w] = "closing"
    /\ ytWindows' = [ytWindows EXCEPT ![w] = "closed"]
    /\ focused' = IF focused = w THEN 0 ELSE focused
    /\ escape' = FALSE
    /\ youtubeBrowserWindow' = 0
    /\ UNCHANGED <<tabVars, saveVars, ipcVars, parseVars, atomVars, loopVars>>

\* ipcMain.handle('youtube:closeWindow'), lines 160-166
CloseWindow ==
    /\ IF youtubeBrowserWindow # 0 /\ ~isDestroyed(youtubeBrowserWindow)
       THEN /\ ytWindows' = close(youtubeBrowserWindow)
            /\ youtubeBrowserWindow' = 0
       ELSE UNCHANGED <<youtubeBrowserWindow, ytWindows>>
    /\ UNCHANGED <<focused, escape, tabVars, saveVars, ipcVars, parseVars,
                   atomVars, loopVars>>

NextYt ==
    \/ OpenVideo
    \/ CloseWindow
    \/ EscapePressed
    \/ \E w \in Windows : Focus(w)
    \/ \E w \in Windows : Blur(w)
    \/ \E w \in Windows : UserClose(w)
    \/ \E w \in Windows : Closed(w)

SpecYt == InitYt /\ [][NextYt]_vars

\* window w is open: created, not asked to close, not destroyed
isOpen(w) == ytWindows[w] = "open"

\* C29: at most one YouTube window is open, youtubeBrowserWindow refers to
\* the open window whenever there is one, and the open window that has the
\* focus has the Escape shortcut, whatever 'closed' events of earlier windows
\* arrive after it was created.
C29_OneWindowReferenced ==
    /\ Cardinality({w \in Windows : isOpen(w)}) <= 1
    /\ \A w \in Windows : isOpen(w) => youtubeBrowserWindow = w
    /\ \A w \in Windows : isOpen(w) /\ focused = w => escape

----------------------------------------------------------------------------
(* The tabs (renderer/components/TabNavigation.jsx and the keyboard        *)
(* navigation manager, unnamed/part_002).                                  *)
(*                                                                         *)
(* React writes an attribute of a rendered element only when the value     *)
(* rendered differs from the value rendered before; what other code wrote  *)
(* into the document is not read back.                                     *)

InitTab == SaveIdle /\ IpcInit /\ ParseIdle /\ RestIdle

\* lines 26-41 of TabNavigation.jsx and lines 113-127 of part_002: every
\* pane gets 'hidden', the pane of tabId loses it
showPane(tabId) == [t \in TabIds |-> t # tabId]

\* the aria-selected attributes after React has rendered TabNavigation with
\* the state next, having rendered it with the state previous before
commit(previous, next) ==
    [t \in TabIds |-> IF (previous = t) # (next = t) THEN next = t
                      ELSE ariaSelected[t]]

\* TabNavigation.handleTabClick, lines 24-51, and the render that
\* setActiveTab causes (lines 59-75)
handleTabClick(tabId) ==
    /\ paneHidden' = showPane(tabId)
    /\ activeTab' = tabId
    /\ ariaSelected' = commit(activeTab, tabId)
    /\ UNCHANGED <<ytVars, saveVars, ipcVars, parseVars, atomVars, loopVars>>

\* KeyboardNavigationManager.switchToTab, lines 111-148
switchToTab(tabId) ==
    /\ paneHidden' = showPane(tabId)
    /\ ariaSelected' = [t \in TabIds |-> t = tabId]
    /\ UNCHANGED <<activeTab, ytVars, saveVars, ipcVars, parseVars, atomVars, loopVars>>

\* the keys pressed, as the code of e.key: '0' to '9' and 'p'
Keys == 48..57 \cup {112}

\* handleKeyDown, lines 22-51, for the key e.key, the element e.target and
\* the modifiers ctrl, meta or alt; the keys after line 51 do not touch the
\* tabs
handleKeyDown(key, tagName, modifier) ==
    IF tagName \in {"INPUT", "TEXTAREA"}
    THEN UNCHANGED vars
    ELSE IF key >= 49 /\ key <= 57 /\ ~modifier
    THEN LET tabIndex == (key - 48) - 1
         IN  IF tabIndex + 1 \in DOMAIN tabs
             THEN switchToTab(tabs[tabIndex + 1])
             ELSE UNCHANGED vars
    ELSE UNCHANGED vars

TabClick == \E tabId \in TabIds : handleTabClick(tabId)

KeyDown ==
    \E key \in Keys, tagName \in {"INPUT", "BODY"}, modifier \in BOOLEAN :
        handleKeyDown(key, tagName, modifier)

NextTab == TabClick \/ KeyDown

SpecTab == InitTab /\ [][NextTab]_vars

\* C30: exactly one tab pane is visible, exactly one tab button has
\* aria-selected true, and that button is the one of the visible pane.
C30_OneTabSelected ==
    /\ Cardinality({t \in TabIds : ~paneHidden[t]}) = 1
    /\ Cardinality({t \in TabIds : ariaSelected[t]}) = 1
    /\ \A t \in TabIds : ariaSelected[t] <=> ~paneHidden[t]

----------------------------------------------------------------------------
(* Properties of the editor's IPC calls. *)

\* slot r holds a save of the M4A writer that has read the file and has not
\* finished writing it
inWindow(r) == req[r].op = "save" /\ req[r].pc \in {"open", "writing"}

\* C16: at most one save to a given path is in progress at any time: two
\* editor:saveKai calls for the same path never overlap between one save's
\* read of the file and its write of the file.
C16_OneSavePerPath ==
    \A r1, r2 \in Reqs :
        (r1 # r2 /\ req[r1].path = req[r2].path) => ~(inWindow(r1) /\ inWindow(r2))

\* what the save of slot r writes when it runs alone on the initial file
alone(r) == injectKaidAtom(InitialFiles[req[r].path], req[r].kaidJson).newFileBuffer

\* slot r holds a save that has reached the M4A writer
m4aSave(r) == req[r].op = "save" /\ "M4AWriter" \in req[r].invoked

\* C17: concurrent saves to different paths do not interfere: at every step of
\* every interleaving, a file that one save works on holds what that save
\* alone makes of it, and a file no save works on keeps its content.
C17_DifferentPathsIndependent ==
    \A p \in DOMAIN files :
        /\ touched[p] = 0 => files[p] = InitialFiles[p]
        /\ touched[p] = 1 =>
              \A r \in Reqs : (m4aSave(r) /\ req[r].path = p) =>
                  /\ req[r].pc = "read" => files[p] = InitialFiles[p]
                  /\ req[r].pc = "open" =>
                        /\ files[p] = InitialFiles[p]
                        /\ req[r].fileBuffer = InitialFiles[p]
                        /\ req[r].newFileBuffer = alone(r)
                  /\ req[r].pc = "writing" => files[p] = <<>>
                  /\ req[r].pc = "validate" => files[p] = alone(r)
                  /\ (req[r].pc = "done" /\ req[r].response = "success") =>
                        files[p] = alone(r)
                  /\ (req[r].pc = "done" /\ req[r].response = "failure") =>
                        files[p] \in {InitialFiles[p],
                                      slice(alone(r), 0, Len(alone(r)) \div 2)}

\* two saves to different paths are in flight at once, one writing its file
\* and one having written it
C17_Witness ==
    \E r1, r2 \in Reqs :
        /\ m4aSave(r1) /\ m4aSave(r2)
        /\ req[r1].path # req[r2].path
        /\ req[r1].pc = "writing"
        /\ req[r2].pc = "validate"
        /\ files[req[r2].path] # InitialFiles[req[r2].path]

\* C24: every error raised inside injectKaidAtom surfaces at the IPC boundary:
\* editor:saveKai then resolves to {success: false, error: message}, never to
\* success: true, and no call of editor:loadKai, editor:saveKai or
\* editor:reloadKai rejects: every finished call has resolved.
C24_ErrorsSurface ==
    \A r \in Reqs : req[r].pc = "done" =>
        /\ req[r].response \in {"success", "failure"}
        /\ req[r].response = "failure" => req[r].error # <<>>
        /\ req[r].raised # <<>> =>
               /\ req[r].response = "failure"
               /\ req[r].error = <<"Failed to inject kaid atom: ", req[r].raised[1]>>

\* the bytes `sub` occur in the buffer
occurs(sub, buffer) ==
    \E k \in 1..(Len(buffer) - Len(sub) + 1) : SubSeq(buffer, k, k + Len(sub) - 1) = sub

\* C25: when saveSong is called for format 'm4a-stems' with a metadata field
\* that differs from the file's current value, the bytes written to the file
\* reflect the new value: after the only save of a file has answered
\* success, the title it was given occurs in the file.
C25_MetadataWritten ==
    \A r \in Reqs :
        ( /\ m4aSave(r)
          /\ req[r].pc = "done" /\ req[r].response = "success"
          /\ touched[req[r].path] = 1
          /\ req[r].song.metadata.title # <<>>
          /\ ~occurs(req[r].song.metadata.title, InitialFiles[req[r].path]) )
        => occurs(req[r].song.metadata.title, files[req[r].path])

\* the extension of a path: its part from the last '.' on, in lower case
\* (<<>> when the path has no '.')
extension(path) ==
    LET dots == {i \in 1..Len(path) : path[i] = 46}
    IN  IF dots = {} THEN <<>>
        ELSE LET last == CHOOSE i \in dots : \A j \in dots : j <= i
             IN  [k \in 1..(Len(path) - last + 1) |->
                    LET c == path[last + k - 1]
                    IN  IF c \in 65..90 THEN c + 32 ELSE c]

\* C18: loadSong dispatches on the lower-cased extension: '.kai' to the KAI
\* loader, '.m4a' or '.mp4' to the M4A loader, and any other path fails
\* without invoking a loader; editor:saveKai likewise answers success: false
\* for any other extension without invoking a writer.
C18_DispatchOnExtension ==
    \A r \in Reqs : req[r].op \in {"load", "save"} =>
        LET e == extension(req[r].path)
        IN  /\ e = E_kai =>
                  /\ "KaiLoader" \in req[r].invoked
                  /\ req[r].invoked \subseteq {"KaiLoader", "KaiWriter"}
            /\ e \in {E_m4a, E_mp4} =>
                  /\ "M4ALoader" \in req[r].invoked
                  /\ req[r].invoked \subseteq {"M4ALoader", "M4AWriter"}
            /\ e \notin {E_kai, E_m4a, E_mp4} =>
                  /\ req[r].invoked = {}
                  /\ req[r].pc = "done"
                  /\ req[r].response = "failure"
            /\ req[r].op = "load" => req[r].invoked \subseteq {"KaiLoader", "M4ALoader"}

\* a load of 'b.MP4' went to the M4A loader while a save to 'd.cdg' was
\* answered with a failure
C18_Witness ==
    \E r1, r2 \in Reqs :
        /\ req[r1].op = "load" /\ req[r1].path = P_b_MP4
        /\ req[r1].invoked = {"M4ALoader"}
        /\ req[r2].op = "save" /\ req[r2].path = P_d_cdg
        /\ req[r2].response = "failure"

====
